---- MODULE Spec2Model ----
(***************************************************************************)
(* Model of the OpenStreetMap cleaning and reshaping code:                 *)
(*   clean_osm.py     cleanOSM      (value cleaning)                       *)
(*   convertToCSV.py  ConvertToCSV  (shape_element, process_map)           *)
(*                                                                         *)
(* A Python string is a sequence of one-character strings, so that the     *)
(* regular expressions, str.split, string.capwords and the substring test  *)
(* `in` are computed character by character, as the code computes them.    *)
(***************************************************************************)
EXTENDS Integers, Sequences, FiniteSets, TLC

(***************************************************************************)
(* Characters and the character classes of Python's re module (ASCII).     *)
(***************************************************************************)
LowerAlpha ==
  <<"a","b","c","d","e","f","g","h","i","j","k","l","m",
    "n","o","p","q","r","s","t","u","v","w","x","y","z">>

UpperAlpha ==
  <<"A","B","C","D","E","F","G","H","I","J","K","L","M",
    "N","O","P","Q","R","S","T","U","V","W","X","Y","Z">>

Range(f) == { f[i] : i \in DOMAIN f }

Digits == {"0","1","2","3","4","5","6","7","8","9"}

Whitespace == {" ", "\t", "\n", "\r"}

IsDigit(c) == c \in Digits

UpperLetters == Range(UpperAlpha)

LowerLetters == Range(LowerAlpha)

IsUpper(c) == c \in UpperLetters

IsLower(c) == c \in LowerLetters

IsAlpha(c) == IsUpper(c) \/ IsLower(c)

IsSpace(c) == c \in Whitespace

\* \w of re (no UNICODE flag): [a-zA-Z0-9_]
IsWord(c) == IsAlpha(c) \/ IsDigit(c) \/ c = "_"

AlphaIndex(alpha, c) == CHOOSE i \in DOMAIN alpha : alpha[i] = c

ToUpper == [c \in LowerLetters |-> UpperAlpha[AlphaIndex(LowerAlpha, c)]]

ToLower == [c \in UpperLetters |-> LowerAlpha[AlphaIndex(UpperAlpha, c)]]

\* str.upper / str.lower on one character
UpperChar(c) == IF IsLower(c) THEN ToUpper[c] ELSE c

LowerChar(c) == IF IsUpper(c) THEN ToLower[c] ELSE c

upper(s) == [i \in 1..Len(s) |-> UpperChar(s[i])]

lower(s) == [i \in 1..Len(s) |-> LowerChar(s[i])]

\* the character at 1-based index i, "" outside the string
At(s, i) == IF i >= 1 /\ i <= Len(s) THEN s[i] ELSE ""

\* s[i..j-1] (1-based, j exclusive)
Slice(s, i, j) == IF j <= i THEN <<>> ELSE SubSeq(s, i, j - 1)

\* the literal lit occurs in s starting at index i
HasAt(s, i, lit) ==
  /\ i >= 1
  /\ i + Len(lit) - 1 <= Len(s)
  /\ \A k \in 1..Len(lit) : s[i + k - 1] = lit[k]

\* Python `lit in s`
Contains(s, lit) == \E i \in 1..(Len(s) + 1) : HasAt(s, i, lit)

\* the literal lit ends immediately before index i (a fixed-width lookbehind)
EndsBefore(s, i, lit) == HasAt(s, i - Len(lit), lit)

\* \b between index i-1 and index i
WordBoundary(s, i) == IsWord(At(s, i - 1)) # IsWord(At(s, i))

\* \d{n} at index i
DigitsAt(s, i, n) == \A k \in 0..(n - 1) : IsDigit(At(s, i + k))

Min(S) == CHOOSE x \in S : \A y \in S : x <= y

Max(S) == CHOOSE x \in S : \A y \in S : x >= y

\* the element of a one-element set
Only(S) == CHOOSE x \in S : TRUE

RECURSIVE Join(_, _)
\* sep.join(parts)
Join(parts, sep) ==
  IF Len(parts) = 0 THEN <<>>
  ELSE IF Len(parts) = 1 THEN parts[1]
  ELSE parts[1] \o sep \o Join(Tail(parts), sep)

RECURSIVE SplitFrom(_, _, _, _)
\* str.split(char): the pieces between the occurrences of one character
SplitFrom(s, i, char, cur) ==
  IF i > Len(s) THEN <<cur>>
  ELSE IF s[i] = char THEN <<cur>> \o SplitFrom(s, i + 1, char, <<>>)
  ELSE SplitFrom(s, i + 1, char, Append(cur, s[i]))

split(s, char) == SplitFrom(s, 1, char, <<>>)

RECURSIVE WordsFrom(_, _, _)
\* str.split(): the maximal runs of non-whitespace characters
WordsFrom(s, i, cur) ==
  IF i > Len(s) THEN (IF cur = <<>> THEN <<>> ELSE <<cur>>)
  ELSE IF IsSpace(s[i])
       THEN (IF cur = <<>> THEN <<>> ELSE <<cur>>) \o WordsFrom(s, i + 1, <<>>)
       ELSE WordsFrom(s, i + 1, Append(cur, s[i]))

\* str.capitalize
capitalize(w) ==
  [i \in 1..Len(w) |-> IF i = 1 THEN UpperChar(w[i]) ELSE LowerChar(w[i])]

\* string.capwords(s): ' '.join(x.capitalize() for x in s.split())
capwords(s) ==
  LET ws == WordsFrom(s, 1, <<>>)
  IN  Join([i \in 1..Len(ws) |-> capitalize(ws[i])], <<" ">>)

RECURSIVE StripLeft(_)
StripLeft(s) == IF s # <<>> /\ IsSpace(Head(s)) THEN StripLeft(Tail(s)) ELSE s

RECURSIVE StripRight(_)
StripRight(s) ==
  IF s # <<>> /\ IsSpace(s[Len(s)]) THEN StripRight(SubSeq(s, 1, Len(s) - 1)) ELSE s

\* str.strip()
strip(s) == StripRight(StripLeft(s))

\* the grave accent character (it cannot be written in a string here)
Backtick == "BACKTICK"

\* one letter of the Arabic script, a single character: not in [a-zA-Z0-9_],
\* not whitespace, and without an upper or lower case
Sheen == "SHEEN"

\* the other characters of the values
Punctuation ==
  { ",", "-", "'", "(", ")", ".", ":", ";", "|", "_", "/", "&", "\"", "!" }

\* the characters a str or unicode object is made of
Chars ==
  UpperLetters \cup LowerLetters \cup Digits \cup Whitespace
    \cup Punctuation \cup {Backtick, Sheen}

\* isinstance(v, basestring)
IsString(v) == v \in Seq(Chars)

\* Python's None object
PyNone == "<None>"

\* the null-marker None, a plain string
NoneStr == <<"N","o","n","e">>

Street == <<"S","t","r","e","e","t">>

(***************************************************************************)
(* Regular expressions.  A pattern is an operator x_regex(s, i) giving the *)
(* match that re finds when it tries index i of s: NoMatch, or the index   *)
(* after the match and the replacement text the code's replacement         *)
(* function produces for it.  The alternatives of a pattern are tried in   *)
(* the order of re's backtracking (a greedy quantifier takes the most      *)
(* first).  search and sub take the matches of a pattern at every index    *)
(* of the string.                                                          *)
(***************************************************************************)
NoMatch == [end |-> 0, repl |-> <<>>]

\* the first candidate, in priority order, that satisfies ok
FirstOf(cands, okSet) ==
  IF okSet = {} THEN 0 ELSE Min(okSet)

\* one character of a mapping key used as a pattern: '.' matches any
\* character but a newline, every other character of the curated keys is
\* a literal
KeyCharMatches(p, c) == IF p = "." THEN c # "" /\ c # "\n" ELSE c = p

\* update_street_name: the pattern \b(key)\b(\.|\BACKTICK)? built from a
\* mapping key, replaced by mapping[key]
key_regex(key, value, s, i) ==
  LET e == i + Len(key)
  IN  IF /\ Len(key) > 0
         /\ e - 1 <= Len(s)
         /\ WordBoundary(s, i)
         /\ \A k \in 1..Len(key) : KeyCharMatches(key[k], s[i + k - 1])
         /\ WordBoundary(s, e)
      THEN [end |-> IF At(s, e) \in {".", Backtick} THEN e + 1 ELSE e, repl |-> value]
      ELSE NoMatch

\* replfunc: (m.groups()[0] + m.groups()[1].upper()).strip()
replfunc(g0, g1) == strip(g0 \o upper(g1))

\* switchfunc: m.groups()[index_1] + m.groups()[index_2].upper()
switchfunc(first, second) == first \o upper(second)

\* switch_number: m.groups()[2] + " " + m.groups()[1]
switch_number(g1, g2) == g2 \o <<" ">> \o g1

\* remove_brackets: r"\(?(\d{1,2})(th|rd|st|TH|nd)\)?" -> group 1
OrdinalSuffixes == { <<"t","h">>, <<"r","d">>, <<"s","t">>, <<"T","H">>, <<"n","d">> }

\* opening bracket taken?, digits
BracketCands == << <<1, 2>>, <<1, 1>>, <<0, 2>>, <<0, 1>> >>

brackets_regex(s, i) ==
  LET cands == BracketCands
      ok(c) == LET d == i + c[1]
               IN  /\ (c[1] = 1 => At(s, i) = "(")
                   /\ DigitsAt(s, d, c[2])
                   /\ d + c[2] + 1 <= Len(s)
                   /\ Slice(s, d + c[2], d + c[2] + 2) \in OrdinalSuffixes
      k == FirstOf(cands, { j \in 1..Len(cands) : ok(cands[j]) })
  IN  IF k = 0 THEN NoMatch
      ELSE LET d == i + cands[k][1]
               e == d + cands[k][2] + 2
           IN  [end |-> IF At(s, e) = ")" THEN e + 1 ELSE e,
                repl |-> Slice(s, d, d + cands[k][2])]

\* street_letter_to_uppercase_and_removegap:
\* r"(\d{1,2})\s?\-?([a-z|A-Z]{1,2})\b" -> replfunc
IsLetterOrBar(c) == IsAlpha(c) \/ c = "|"

\* digits, whitespace taken?, hyphen taken?, letters
LetterCands ==
  << <<2,1,1,2>>, <<2,1,1,1>>, <<2,1,0,2>>, <<2,1,0,1>>,
     <<2,0,1,2>>, <<2,0,1,1>>, <<2,0,0,2>>, <<2,0,0,1>>,
     <<1,1,1,2>>, <<1,1,1,1>>, <<1,1,0,2>>, <<1,1,0,1>>,
     <<1,0,1,2>>, <<1,0,1,1>>, <<1,0,0,2>>, <<1,0,0,1>> >>

letter_regex(s, i) ==
  LET cands == LetterCands
      ok(c) == LET a == i + c[1]
                   b == a + c[2]
                   l == b + c[3]
               IN  /\ DigitsAt(s, i, c[1])
                   /\ (c[2] = 1 => IsSpace(At(s, a)))
                   /\ (c[3] = 1 => At(s, b) = "-")
                   /\ \A j \in 0..(c[4] - 1) : IsLetterOrBar(At(s, l + j))
                   /\ WordBoundary(s, l + c[4])
      k == FirstOf(cands, { j \in 1..Len(cands) : ok(cands[j]) })
  IN  IF k = 0 THEN NoMatch
      ELSE LET c == cands[k]
               l == i + c[1] + c[2] + c[3]
           IN  [end |-> l + c[4],
                repl |-> replfunc(Slice(s, i, i + c[1]), Slice(s, l, l + c[4]))]

\* switch_digit_position: r"\b([A-Z])(\d{1,2})\b" -> switchfunc(x, 1, 0)
switch_regex(s, i) ==
  LET ok(n) == /\ WordBoundary(s, i)
               /\ IsUpper(At(s, i))
               /\ DigitsAt(s, i + 1, n)
               /\ WordBoundary(s, i + 1 + n)
      n == IF ok(2) THEN 2 ELSE IF ok(1) THEN 1 ELSE 0
  IN  IF n = 0 THEN NoMatch
      ELSE [end |-> i + 1 + n,
            repl |-> switchfunc(Slice(s, i + 1, i + 1 + n), <<s[i]>>)]

\* remove_hypen_space_and_switch:
\* r"(?<!(Plot No\. ))([A-Z])[\-|\s](\d{1,2})\b" -> switchfunc(x, 2, 1)
PlotNo == <<"P","l","o","t"," ","N","o","."," ">>

hyphen_regex(s, i) ==
  LET ok(n) == /\ ~EndsBefore(s, i, PlotNo)
               /\ IsUpper(At(s, i))
               /\ (At(s, i + 1) \in {"-", "|"} \/ IsSpace(At(s, i + 1)))
               /\ DigitsAt(s, i + 2, n)
               /\ WordBoundary(s, i + 2 + n)
      n == IF ok(2) THEN 2 ELSE IF ok(1) THEN 1 ELSE 0
  IN  IF n = 0 THEN NoMatch
      ELSE [end |-> i + 2 + n,
            repl |-> switchfunc(Slice(s, i + 2, i + 2 + n), <<s[i]>>)]

\* put_number_after_street:
\* r"(?<!(\d{2} ))(\b\d{1,2}[A-Z]{0,1})\s(Street)(?! \d{2})" -> switch_number
\* digits, letter taken?
SuffixCands == << <<2, 1>>, <<2, 0>>, <<1, 1>>, <<1, 0>> >>

suffix_regex(s, i) ==
  LET cands == SuffixCands
      ok(c) == LET sp == i + c[1] + c[2]
               IN  /\ ~(DigitsAt(s, i - 3, 2) /\ At(s, i - 1) = " ")
                   /\ WordBoundary(s, i)
                   /\ DigitsAt(s, i, c[1])
                   /\ (c[2] = 1 => IsUpper(At(s, i + c[1])))
                   /\ IsSpace(At(s, sp))
                   /\ HasAt(s, sp + 1, Street)
                   /\ ~(At(s, sp + 7) = " " /\ DigitsAt(s, sp + 8, 2))
      k == FirstOf(cands, { j \in 1..Len(cands) : ok(cands[j]) })
  IN  IF k = 0 THEN NoMatch
      ELSE LET sp == i + cands[k][1] + cands[k][2]
           IN  [end |-> sp + 7, repl |-> switch_number(Slice(s, i, sp), Street)]

\* add_street_prefix, regex:
\* r"(?<!(Street |France |Center |strict ))(\b\d{1,2}[A-Z]{1}\b)(?! Street| Sikka)"
PrefixGuards ==
  { <<"S","t","r","e","e","t"," ">>, <<"F","r","a","n","c","e"," ">>,
    <<"C","e","n","t","e","r"," ">>, <<"s","t","r","i","c","t"," ">> }

SuffixGuards == { <<" ","S","t","r","e","e","t">>, <<" ","S","i","k","k","a">> }

StreetPrefix == <<"S","t","r","e","e","t"," ">>

prefix_regex(s, i) ==
  LET ok(n) == /\ \A g \in PrefixGuards : ~EndsBefore(s, i, g)
               /\ WordBoundary(s, i)
               /\ DigitsAt(s, i, n)
               /\ IsUpper(At(s, i + n))
               /\ WordBoundary(s, i + n + 1)
               /\ \A g \in SuffixGuards : ~HasAt(s, i + n + 1, g)
      n == IF ok(2) THEN 2 ELSE IF ok(1) THEN 1 ELSE 0
  IN  IF n = 0 THEN NoMatch
      ELSE [end |-> i + n + 1, repl |-> StreetPrefix \o Slice(s, i, i + n + 1)]

\* add_street_prefix, regex_1: r"^(\b\d{1,2}\b)$"
bare_number_regex(s, i) ==
  IF i = 1 /\ Len(s) \in {1, 2} /\ DigitsAt(s, 1, Len(s))
  THEN [end |-> Len(s) + 1, repl |-> StreetPrefix \o s]
  ELSE NoMatch

\* re.search(rx, s): rx matches at some index
search(matches) == \E i \in DOMAIN matches : matches[i] # NoMatch

\* re.sub(rx, repl, s): every non-overlapping match, leftmost first; from[i]
\* is the result for the part of s from index i on
sub(matches, s) ==
  LET from[i \in 1..(Len(s) + 1)] ==
        IF i > Len(s) THEN <<>>
        ELSE IF matches[i] = NoMatch THEN <<s[i]>> \o from[i + 1]
        ELSE matches[i].repl \o from[matches[i].end]
  IN  from[1]

(***************************************************************************)
(* cleanOSM (clean_osm.py).  A mapping is the dict as the sequence of its  *)
(* <<key, value>> items in iteration order; expected_values is a list.     *)
(***************************************************************************)
Keys(mapping) == { mapping[k][1] : k \in DOMAIN mapping }

\* the exception of mapping[key] for a key the dict does not hold
KeyError == <<"<", "KeyError", ">">>

\* mapping[key]
Lookup(mapping, key) ==
  IF key \in Keys(mapping)
  THEN mapping[CHOOSE k \in DOMAIN mapping : mapping[k][1] = key][2]
  ELSE KeyError

clean_value_identity(dirty_value, mapping) == dirty_value

clean_value(dirty_value, mapping) ==
  IF dirty_value \in Keys(mapping) THEN Lookup(mapping, dirty_value)
  ELSE dirty_value

set_to_none_passthrough(dirty_value) == dirty_value

set_to_none(dirty_value) == NoneStr

RECURSIVE UpdateFrom(_, _, _, _)
\* the loop of update_street_name from the k-th key on: every substitution
\* is made on self.dirty_value and assigned to clean_value
UpdateFrom(dirty_value, mapping, k, clean) ==
  IF k > Len(mapping) THEN clean
  ELSE LET key == mapping[k][1]
           rx  == [i \in 1..Len(dirty_value) |->
                     key_regex(key, mapping[k][2], dirty_value, i)]
       IN  IF Contains(dirty_value, key) /\ search(rx)
           THEN UpdateFrom(dirty_value, mapping, k + 1, sub(rx, dirty_value))
           ELSE UpdateFrom(dirty_value, mapping, k + 1, clean)

\* update_street_name without its loop
update_street_name_off(dirty_value, mapping) == dirty_value

update_street_name(dirty_value, mapping) ==
  UpdateFrom(dirty_value, mapping, 1, dirty_value)

street_letter_to_uppercase_and_removegap(name) ==
  LET letter == [i \in 1..Len(name) |-> letter_regex(name, i)]
  IN  IF search(letter) THEN sub(letter, name) ELSE name

switch_digit_position_off(name) == name

switch_digit_position(name) ==
  LET switch == [i \in 1..Len(name) |-> switch_regex(name, i)]
  IN  IF search(switch) THEN sub(switch, name) ELSE name

remove_hypen_space_and_switch(name) ==
  LET hyphen == [i \in 1..Len(name) |-> hyphen_regex(name, i)]
  IN  IF search(hyphen) THEN sub(hyphen, name) ELSE name

remove_brackets(name) ==
  LET brackets == [i \in 1..Len(name) |-> brackets_regex(name, i)]
  IN  IF search(brackets) THEN sub(brackets, name) ELSE name

add_street_prefix(name) ==
  LET regex   == [i \in 1..Len(name) |-> prefix_regex(name, i)]
      regex_1 == [i \in 1..Len(name) |-> bare_number_regex(name, i)]
  IN  IF search(regex) THEN sub(regex, name)
      ELSE IF search(regex_1) THEN sub(regex_1, name)
      ELSE name

put_number_after_street(name) ==
  LET suffix == [i \in 1..Len(name) |-> suffix_regex(name, i)]
  IN  IF search(suffix) THEN sub(suffix, name) ELSE name

\* any(value in name for value in self.expected_values)
AnyIn(name, expected_values) ==
  \E k \in DOMAIN expected_values : Contains(name, expected_values[k])

\* the name itself looked up in the list, not the list's words in the name
remove_non_street_values_exact(name, expected_values) ==
  IF name \in Range(expected_values) THEN name ELSE NoneStr

remove_non_street_values(name, expected_values) ==
  IF AnyIn(name, expected_values) THEN name ELSE NoneStr

\* the inner loop of extract_street for one split character: the first part
\* holding an expected value, or <<>> wrapped as no result
FirstStreetPart(name, char, expected_values) ==
  LET parts == split(name, char)
      hits  == { j \in DOMAIN parts : AnyIn(parts[j], expected_values) }
  IN  IF Contains(name, <<char>>) /\ hits # {}
      THEN <<parts[Min(hits)]>>
      ELSE <<>>

\* extract_street without its last line: the call falls off the end
extract_street_no_fallback(name, expected_values) ==
  LET onHyphen == FirstStreetPart(name, "-", expected_values)
      onComma  == FirstStreetPart(name, ",", expected_values)
  IN  IF onHyphen # <<>> THEN onHyphen[1]
      ELSE IF onComma # <<>> THEN onComma[1]
      ELSE PyNone

extract_street(name, expected_values) ==
  LET onHyphen == FirstStreetPart(name, "-", expected_values)
      onComma  == FirstStreetPart(name, ",", expected_values)
  IN  IF onHyphen # <<>> THEN onHyphen[1]
      ELSE IF onComma # <<>> THEN onComma[1]
      ELSE name

\* the rewrite steps of clean_street_name before the nulling step
street_rewrite(dirty_value, mapping) ==
  Only({ add_street_prefix(n6) :
    n6 \in { put_number_after_street(n5) :
    n5 \in { remove_hypen_space_and_switch(n4) :
    n4 \in { switch_digit_position(n3) :
    n3 \in { street_letter_to_uppercase_and_removegap(n2) :
    n2 \in { remove_brackets(c1) :
    c1 \in { capwords(n1) :
    n1 \in { update_street_name(dirty_value, mapping) } } } } } } } })

clean_street_name(dirty_value, mapping, expected_values) ==
  Only({ IF n8 # NoneStr THEN extract_street(n8, expected_values) ELSE n8 :
    n8 \in { remove_non_street_values(n7, expected_values) :
    n7 \in { street_rewrite(dirty_value, mapping) } } })

is_expected_city_exact(dirty_value, expected_values) ==
  LET cap  == capwords(dirty_value)
      hits == { k \in DOMAIN expected_values : cap = expected_values[k] }
  IN  IF hits # {} THEN <<TRUE, expected_values[Min(hits)]>> ELSE <<FALSE, <<>>>>

\* is_expected_city: <<TRUE, value>> for the first expected value found in
\* the title-cased input, <<FALSE, ''>> otherwise
is_expected_city(dirty_value, expected_values) ==
  LET cap  == capwords(dirty_value)
      hits == { k \in DOMAIN expected_values : Contains(cap, expected_values[k]) }
  IN  IF hits # {} THEN <<TRUE, expected_values[Min(hits)]>> ELSE <<FALSE, <<>>>>

\* regex_english = r'^[a-z|A-Z]+.' searched in s
regex_english(s) ==
  /\ Len(s) >= 2
  /\ IsLetterOrBar(s[1])
  /\ s[2] # "\n"

wrong_entry ==
  << <<"t","o","w","n">>, <<"M","E","-","1","2">>, <<"A","E">>,
     <<"S","a","n"," ","D","i","e","g","o",","," ","C","A">> >>

WrongEntries == Range(wrong_entry)

clean_city_name(dirty_value, mapping, expected_values) ==
  LET city_status == is_expected_city(dirty_value, expected_values)
  IN  IF city_status[1] THEN city_status[2]
      ELSE IF dirty_value \in Keys(mapping) THEN clean_value(dirty_value, mapping)
      ELSE IF regex_english(dirty_value)
           THEN IF dirty_value \in WrongEntries
                THEN set_to_none(dirty_value)
                ELSE capwords(dirty_value)
      ELSE set_to_none(dirty_value)

(***************************************************************************)
(* The reference data of convertToCSV.py.                                  *)
(***************************************************************************)
\* the dict items in the order of the literal (convertToCSV.py)
mapping_street_name ==
  << <<<<"S","t",".">>, <<"S","t","r","e","e","t">>>>,
     <<<<"S","t">>, <<"S","t","r","e","e","t">>>>,
     <<<<"s","t","r","e","e","t">>, <<"S","t","r","e","e","t">>>>,
     <<<<"R","d",".">>, <<"R","o","a","d">>>>,
     <<<<"R","d">>, <<"R","o","a","d">>>>,
     <<<<"r","o","a","d">>, <<"R","o","a","d">>>> >>

mapping_city ==
  << <<<<"A"," ","A","i","n">>, <<"A","l"," ","A","i","n">>>>,
     <<<<"A","l"," ","A","I","n">>, <<"A","l"," ","A","i","n">>>>,
     <<<<"s","h","a","r","j","a">>, <<"S","h","a","r","j","a","h">>>>,
     <<<<"D","u","b","a">>, <<"D","u","b","a","i">>>>,
     <<<<"M","u","s","s","a","f","a","h"," ","M"," ","4","5","-"," ","A","b","u"," ","D","h","a","b","i">>, <<"M","u","s","s","a","f","a","h">>>>,
     <<<<"M","u","s","a","f","f","a","h"," ","I","n","d","u","s","t","r","i","a","l"," ","A","r","e","a">>, <<"M","u","s","s","a","f","a","h">>>>,
     <<<<"D","u","a","b","i">>, <<"D","u","b","a","i">>>>,
     <<<<"A","l"," ","S","a","f","a"," ","1">>, <<"D","u","b","a","i">>>>,
     <<<<"A","l"," ","S","a","f","a"," ","2">>, <<"D","u","b","a","i">>>>,
     <<<<"J","u","m","e","i","r","a","h"," ","1">>, <<"D","u","b","a","i">>>>,
     <<<<"J","u","m","e","i","r","a","h"," ","3">>, <<"D","u","b","a","i">>>>,
     <<<<"J","u","m","e","i","r","a","h"," ","V","i","l","l","a","g","e"," ","C","i","r","c","l","e">>, <<"D","u","b","a","i">>>>,
     <<<<"S","j","a","r","j","a","h">>, <<"S","h","a","r","j","a","h">>>>,
     <<<<"s","a","m","h","a">>, <<"A","l"," ","S","a","m","h","a">>>>,
     <<<<"J","V","T">>, <<"D","u","b","a","i">>>>,
     <<<<"A","l"," ","Q","u","o","z"," ","I","n","d","u","s","t","r","i","a","l"," ","A","r","e","a"," ","2">>, <<"D","u","b","a","i">>>>,
     <<<<"J","u","m","e","i","r","a","h"," ","L","a","k","e","s"," ","T","o","w","e","r","s">>, <<"D","u","b","a","i">>>>,
     <<<<"J","L","T"," ","C","l","u","s","t","e","r"," ","Y">>, <<"D","u","b","a","i">>>>,
     <<<<"K","a","r","a","m","a">>, <<"A","l"," ","K","a","r","a","m","a">>>> >>

mapping_surface ==
  << <<<<"r","u","n","n","i","n","g"," ","s","u","r","f","a","c","e">>, <<"r","u","n","n","i","n","g","_","s","u","r","f","a","c","e">>>>,
     <<<<"E","l","e","v","a","t","e","d">>, <<"e","l","e","v","a","t","e","d">>>>,
     <<<<"p","a","v","i","n","g","_","s","t","o","n","e","s","s">>, <<"p","a","v","i","n","g","_","s","t","o","n","e","s">>>>,
     <<<<"p","a","v","i","n">>, <<"p","a","v","i","n","g">>>>,
     <<<<"p","a","v","i","n","g"," ","s","t","o","n","e","s">>, <<"p","a","v","i","n","g","_","s","t","o","n","e","s">>>>,
     <<<<"u","n","p","a","v","e","d","s">>, <<"u","n","p","a","v","e","d">>>>,
     <<<<"u","n","p","a","v","e","d",Backtick>>, <<"u","n","p","a","v","e","d">>>>,
     <<<<"p","a","v","i","n","g",Backtick>>, <<"p","a","v","i","n","g">>>>,
     <<<<"a","s","p","h","a","l","t",Backtick>>, <<"a","s","p","h","a","l","t">>>> >>

mapping_building ==
  << <<<<"A","i","r","p","o","r","t","_","t","e","r","m","i","n","a","l">>, <<"t","e","r","m","i","n","a","l">>>>,
     <<<<"O","f","f","i","c","e","_","A","n","d","_","e","n","t","r","a","n","c","e">>, <<"c","o","m","m","e","r","c","i","a","l">>>>,
     <<<<"M","A","J"," ","B","u","i","l","d","i","n","g">>, <<"y","e","s">>>>,
     <<<<"C","o","m","p","l","e","x","_","A","_","&","_","B">>, <<"y","e","s">>>>,
     <<<<"y","e","s",";","m","o","s","q","u","e">>, <<"m","o","s","q","u","e">>>>,
     <<<<"T","o","u","r","i","s","t","_","E","x","h","i","b","i","t","i","o","n">>, <<"y","e","s">>>>,
     <<<<"G","a","t","e"," ","3">>, <<"y","e","s">>>>,
     <<<<"O","f","f","i","c","e","s">>, <<"c","o","m","m","e","r","c","i","a","l">>>>,
     <<<<"o","f","f","i","c","e">>, <<"c","o","m","m","e","r","c","i","a","l">>>> >>

expected_street_name ==
  << <<"S","t","r","e","e","t">>,
     <<"A","v","e","n","u","e">>,
     <<"B","o","u","l","e","v","a","r","d">>,
     <<"D","r","i","v","e">>,
     <<"C","o","u","r","t">>,
     <<"P","l","a","c","e">>,
     <<"S","q","u","a","r","e">>,
     <<"L","a","n","e">>,
     <<"R","o","a","d">>,
     <<"T","r","a","i","l">>,
     <<"P","a","r","k","w","a","y">>,
     <<"C","o","m","m","o","n","s">>,
     <<"S","l","i","p","w","a","y">>,
     <<"W","a","y">>,
     <<"W","a","l","k">>,
     <<"H","i","g","h","w","a","y">>,
     <<"R","o","u","n","d","a","b","o","u","t">>,
     <<"E","x","i","t">>,
     <<"L","i","n","k">>,
     <<"T","r","a","c","k">>,
     <<"C","o","r","n","i","c","h","e">> >>

expected_cities ==
  << <<"A","b","u"," ","D","h","a","b","i">>,
     <<"D","u","b","a","i">>,
     <<"D","i","b","b","a"," ","A","l","-","F","u","j","a","i","r","a","h">>,
     <<"A","l"," ","A","i","n">>,
     <<"F","u","j","a","i","r","a","h">>,
     <<"S","h","a","r","j","a","h">>,
     <<"A","l"," ","K","a","r","a","m","a">>,
     <<"A","l"," ","N","u","d">>,
     <<"M","u","s","s","a","f","a","h">>,
     <<"A","j","m","a","n">>,
     <<"S","a","a","d","i","y","a","t"," ","I","s","l","a","n","d">>,
     <<"A","l"," ","R","e","e","m"," ","I","s","l","a","n","d">>,
     <<"K","h","a","l","i","f","a"," ","C","i","t","y"," ","A">>,
     <<"K","h","a","l","i","f","a"," ","C","i","t","y"," ","B">>,
     <<"K","h","a","l","i","f","a"," ","C","i","t","y"," ","C">>,
     <<"A","l"," ","T","o","w","a","y","y","a">>,
     <<"H","a","t","t","a">>,
     <<"A","l"," ","K","h","a","n">>,
     <<"A","l"," ","M","a","r","y","a","h"," ","I","s","l","a","n","d">>,
     <<"M","u","h","a","m","m","a","d"," ","B","i","n"," ","Z","a","y","e","d"," ","C","i","t","y">>,
     <<"A","l"," ","K","a","r","a","m","a">>,
     <<"A","l"," ","S","a","m","h","a">>,
     <<"U","m","m"," ","A","l"," ","Q","u","w","a","i","n">>,
     <<"R","a","s"," ","a","l"," ","K","h","a","i","m","a","h">>,
     <<"Y","a","s"," ","I","s","l","a","n","d">>,
     <<"H","a","t","t","a">> >>


\* PROBLEMCHARS = r'[=\+/&<>;\'"\?%#$@\,\. \t\r\n]', a character class
PROBLEMCHARS ==
  {"=", "+", "/", "&", "<", ">", ";", "'", "\"", "?", "%", "#", "$", "@",
   ",", ".", " ", "\t", "\r", "\n"}

\* ARABICKEY = r'((\:ar)|\b(ar))$$': the suffix :ar, or the word-initial
\* suffix ar
ARABICKEY == [suffix |-> <<":","a","r">>, word |-> <<"a","r">>]

NODE_FIELDS == <<"id", "lat", "lon", "user", "uid", "version", "changeset", "timestamp">>

WAY_FIELDS == <<"id", "user", "uid", "version", "changeset", "timestamp">>

NODE_TAGS_FIELDS == <<"id", "key", "value", "type">>

WAY_TAGS_FIELDS == <<"id", "key", "value", "type">>

WAY_NODES_FIELDS == <<"id", "node_id", "position">>

default_tag_type == <<"r","e","g","u","l","a","r">>

(***************************************************************************)
(* ConvertToCSV.shape_element (convertToCSV.py).  An element is            *)
(*   [tag, attrib, tags: sequence of [k, v], nds: sequence of ref].        *)
(***************************************************************************)
\* element.get(field), None for a missing attribute
get(element, field) ==
  IF field \in DOMAIN element.attrib THEN element.attrib[field] ELSE PyNone

\* $ : the end of the string, or just before a final newline
AtEnd(s, j) == j = Len(s) + 1 \/ (j = Len(s) /\ s[j] = "\n")

\* re.search(problem_chars, k) for a character-class pattern
search_class(chars, k) == \E i \in 1..Len(k) : k[i] \in chars

\* re.search(arabic_chars, k)
search_arabic(pat, k) ==
  \E i \in 1..Len(k) :
    \/ HasAt(k, i, pat.suffix) /\ AtEnd(k, i + Len(pat.suffix))
    \/ WordBoundary(k, i) /\ HasAt(k, i, pat.word) /\ AtEnd(k, i + Len(pat.word))

IsLowerOrUnderscore(c) == IsLower(c) \/ c = "_"

\* re.search(LOWER_COLON, k), LOWER_COLON = r'^([a-z]|_)+:([a-z]|_)+'
LOWER_COLON(k) ==
  \E n \in 1..Len(k) :
    /\ \A j \in 1..n : IsLowerOrUnderscore(k[j])
    /\ At(k, n + 1) = ":"
    /\ IsLowerOrUnderscore(At(k, n + 2))

\* the split at the last colon instead of the first
SplitLastColon(k) ==
  LET c == Max({ i \in 1..Len(k) : k[i] = ":" })
  IN  <<Slice(k, 1, c), Slice(k, c + 1, Len(k) + 1)>>

\* k.split(':', 1) of a key that holds a colon
SplitColon(k) ==
  LET c == Min({ i \in 1..Len(k) : k[i] = ":" })
  IN  <<Slice(k, 1, c), Slice(k, c + 1, Len(k) + 1)>>

addr_street == <<"a","d","d","r",":","s","t","r","e","e","t">>

building == <<"b","u","i","l","d","i","n","g">>

surface == <<"s","u","r","f","a","c","e">>

oneway == <<"o","n","e","w","a","y">>

addr_city == <<"a","d","d","r",":","c","i","t","y">>

\* the chain with the key compared in lower case
tag_value_any_case(k, v, street_items) ==
  IF lower(k) = addr_street
  THEN clean_street_name(v, street_items, expected_street_name)
  ELSE IF lower(k) = building THEN clean_value(v, mapping_building)
  ELSE IF lower(k) = surface THEN clean_value(v, mapping_surface)
  ELSE IF lower(k) = oneway THEN set_to_none(v)
  ELSE IF lower(k) = addr_city THEN clean_city_name(v, mapping_city, expected_cities)
  ELSE v

\* the if / elif chain that picks the cleaner of a sub-tag; street_items is
\* mapping_street_name in the order the dict is iterated
tag_value(k, v, street_items) ==
  IF k = addr_street THEN clean_street_name(v, street_items, expected_street_name)
  ELSE IF k = building THEN clean_value(v, mapping_building)
  ELSE IF k = surface THEN clean_value(v, mapping_surface)
  ELSE IF k = oneway THEN set_to_none(v)
  ELSE IF k = addr_city THEN clean_city_name(v, mapping_city, expected_cities)
  ELSE v

tag_attrib_constant_id(element, t, street_items) ==
  LET parts == IF LOWER_COLON(t.k) THEN SplitColon(t.k) ELSE <<default_tag_type, t.k>>
  IN  [id |-> "1", key |-> parts[2], value |-> tag_value(t.k, t.v, street_items),
       type |-> parts[1]]

\* the row built for one sub-tag that is not skipped
tag_attrib(element, t, street_items) ==
  LET parts == IF LOWER_COLON(t.k) THEN SplitColon(t.k) ELSE <<default_tag_type, t.k>>
  IN  [id |-> get(element, "id"), key |-> parts[2],
       value |-> tag_value(t.k, t.v, street_items), type |-> parts[1]]

\* the two `continue` tests of the loop over the sub-tags
skipped_never(problem_chars, arabic_chars, k) == FALSE

skipped(problem_chars, arabic_chars, k) ==
  search_class(problem_chars, k) \/ search_arabic(arabic_chars, k)

\* the loop over element.iter("tag")
shape_tags(element, problem_chars, arabic_chars, street_items) ==
  LET kept == SelectSeq(element.tags,
                        LAMBDA t : ~skipped(problem_chars, arabic_chars, t.k))
  IN  [i \in 1..Len(kept) |-> tag_attrib(element, kept[i], street_items)]

way_nodes_one_based(element) ==
  [i \in 1..Len(element.nds) |->
     [id |-> get(element, "id"), node_id |-> element.nds[i], position |-> i]]

\* the loop over element.iter("nd"): nd_index counts from 0
way_nodes(element) ==
  [i \in 1..Len(element.nds) |->
     [id |-> get(element, "id"), node_id |-> element.nds[i], position |-> i - 1]]

\* a primary row that copies every attribute of the element
attribs_all(element, fields) == element.attrib

attribs(element, fields) ==
  [f \in Range(fields) |-> get(element, f)]

\* what shape_element returns for an element that is neither node nor way
NoBundle == [none |-> TRUE]

\* the node branch tests the problem_chars argument, the way branch the
\* module-level PROBLEMCHARS
shape_element(element, problem_chars, arabic_chars, street_items) ==
  IF element.tag = "node"
  THEN [node |-> attribs(element, NODE_FIELDS),
        node_tags |-> shape_tags(element, problem_chars, arabic_chars, street_items)]
  ELSE IF element.tag = "way"
  THEN [way |-> attribs(element, WAY_FIELDS),
        way_nodes |-> way_nodes(element),
        way_tags |-> shape_tags(element, PROBLEMCHARS, arabic_chars, street_items)]
  ELSE NoBundle

(***************************************************************************)
(* Bounds of the model and the pools the inputs are drawn from.            *)
(***************************************************************************)
\* the most tokens an audited value is put together from
MaxTokens == 3

\* how often clean_street_name is applied again to its own result
MaxPass == 1

\* the most sub-tags of an element
MaxTags == 2

\* the most member references of a way
MaxNds == 2

SeqsUpTo(S, n) == UNION { [1..k -> S] : k \in 0..n }

RECURSIVE Flatten(_)
\* the concatenation of a sequence of strings
Flatten(ss) == IF ss = <<>> THEN <<>> ELSE Head(ss) \o Flatten(Tail(ss))

StreetTokens ==
  { <<"S","t">>, <<"R","d">>, <<" ">>, <<",">>, <<"-">>, <<"1">>, <<"E">> }

\* street values of the docstrings of clean_osm.py and of the audit
ScenarioStreets ==
  { <<"E","1","1">>,
    <<"s","i","b","a","y","t","a","h"," ","s","t">>,
    <<"S","t","r","e","e","t"," ","6","a">>,
    <<"1","7"," ","S","t","r","e","e","t">>,
    <<"1","1","B">>,
    <<"M","-","2","6">>,
    <<"S","a","'","a","d","a"," ","S","t","r","e","e","t"," ","(","1","9","t","h",")">>,
    <<"J","u","m","e","i","r","a","h"," ","V","i","l","l","a","g","e"," ","T","r","i","a","n","g","l","e",","," "," ","D","i","s","t","r","i","c","t"," ","2",","," ","S","t","r","e","e","t"," ","5">>,
    <<"1"," ","S","t","r","e","e","t"," ","1","7",","," ","A","l"," ","S","a","f","a">>,
    <<"N","o","n","e">>,
    <<"S","i","b","a","y","t","a","h"," ","S","t">>,
    <<"I","b","n"," ","S","i","n","a"," ","M","e","d","i","c","a","l"," ","C","e","n","t","r","e">>,
    <<"P",".","O","."," ","B","o","x"," ","3","4","4","2","9">>,
    <<"(","!",")">>,
    <<"4","2">>,
    <<Sheen, Sheen, " ", Sheen>>,
    <<"1"," ","S","t","r","e","e","t"," ","7","A">>,
    <<"A","l"," ","Q","u","o","z","-","A","r","e","a",","," ","S","t","r","e","e","t"," ","5">> }

StreetValues ==
  { Flatten(ts) : ts \in SeqsUpTo(StreetTokens, MaxTokens) } \cup ScenarioStreets

CityTokens ==
  { <<"D","u","b","a","i">>, <<"D","u","b","a">>, <<" ">>, <<"a">>, <<"1">> }

ScenarioCities ==
  { <<"J","u","m","e","r","i","a","h"," ","L","a","k","e"," ","T","o","w","e","r","s",","," ","D","u","b","a","i">>,
    <<"d","u","b","a","i">>,
    <<"f","u","j","a","i","r","a","h">>,
    <<"t","o","w","n">>,
    <<"M","E","-","1","2">>,
    <<"A","E">>,
    <<"S","a","n"," ","D","i","e","g","o",","," ","C","A">>,
    <<"A">>,
    <<>>,
    <<"1">>,
    <<"a","1">>,
    <<"K","h","o","r"," ","F","a","k","k","a","n">>,
    <<".",",">>,
    <<Sheen, Sheen>> }

CityValues ==
  { Flatten(ts) : ts \in SeqsUpTo(CityTokens, MaxTokens) }
    \cup ScenarioCities \cup Keys(mapping_city) \cup Range(expected_cities)

PlainValues ==
  { <<>>,
    <<"y","e","s">>,
    <<"n","o">>,
    <<"-","1">>,
    <<"h","o","u","s","e">>,
    <<"O","f","f","i","c","e","s">>,
    <<"o","f","f","i","c","e">>,
    <<"y","e","s",";","m","o","s","q","u","e">>,
    <<"p","a","v","i","n">>,
    <<"a","s","p","h","a","l","t">>,
    <<"E","l","e","v","a","t","e","d">>,
    <<"p","a","v","i","n","g"," ","s","t","o","n","e","s">>,
    <<";">>,
    <<Sheen>> }
    \cup Keys(mapping_building) \cup Keys(mapping_surface)

\* the orders in which the six items of mapping_street_name may be iterated:
\* the order of a dict is not fixed by its items (it depends on the hashes
\* and the insertion history), so a caller sees one of several orders; the
\* order of the literal and its reverse stand for them
DictOrders == { <<1, 2, 3, 4, 5, 6>>, <<6, 5, 4, 3, 2, 1>> }

Permute(items, order) == [i \in 1..Len(order) |-> items[order[i]]]

StreetItems == { Permute(mapping_street_name, o) : o \in DictOrders }

\* a small mapping and list, as in the abbreviations audit
mapping_st == << << <<"s","t">>, Street >> >>

expected_st == << Street >>

\* a city table in which a canonical name is a key as well
mapping_city_overlap ==
  << << <<"D","u","b","a","i">>, <<"S","h","a","r","j","a","h">> >>,
     << <<"D","u","b","a">>, <<"D","u","b","a","i">> >> >>

expected_city_overlap == << <<"D","u","b","a","i">>, <<"A","l"," ","A","i","n">> >>

\* the <<mapping, expected_values>> the street, city and other cleaners are
\* given
StreetTables ==
  (StreetItems \X {expected_street_name}) \cup {<<mapping_st, expected_st>>}

\* the tables clean_street_name is stepped through with: the street tables,
\* and an object built without a list (expected_values = [], the default)
CleanTables == StreetTables \cup {<<mapping_st, <<>> >>}

CityTables ==
  { <<mapping_city, expected_cities>>,
    <<mapping_city_overlap, expected_city_overlap>> }

PlainTables ==
  { <<mapping_building, <<>> >>, <<mapping_surface, <<>> >>, << <<>>, <<>> >> }

\* the (value, <<mapping, expected_values>>) a cleanOSM object is built from
CleanCases ==
  (StreetValues \X StreetTables) \cup (CityValues \X CityTables)
    \cup (PlainValues \X PlainTables)

Ids == {"1", "2"}

Refs == {"7", "8"}

\* sub-tags of the audited map: designated keys, a plain key, and keys the
\* exclusion patterns drop
TagPool ==
  { [k |-> addr_street, v |-> <<"S","t"," ","R","d">>],
    [k |-> oneway, v |-> <<"y","e","s">>],
    [k |-> <<"n","a","m","e">>, v |-> <<"x">>],
    [k |-> <<"n","a","m","e",":","a","r">>, v |-> <<"x">>],
    [k |-> <<"f","i","x"," ","m","e">>, v |-> <<"x">>],
    [k |-> <<"a","d","d","r",":","s","t","r","e","e","t",":","n","a","m","e">>,
     v |-> <<"x">>],
    [k |-> <<"N","a","m","e",":","e","n">>, v |-> <<"x">>] }

NodeAttrib(id) ==
  [id |-> id, lat |-> "25.2", lon |-> "55.3", user |-> "u", uid |-> "9",
   version |-> "3", changeset |-> "c", timestamp |-> "t", visible |-> "true"]

WayAttrib(id) ==
  [id |-> id, user |-> "u", uid |-> "9", version |-> "3", changeset |-> "c",
   timestamp |-> "t", visible |-> "true"]

\* the most elements of an OSM file
MaxRecords == 2

MainSt == <<"M","a","i","n"," ","S","t">>

\* the elements of the OSM files: nodes and ways with and without sub-tags,
\* and a relation, each with an id of its own
FileElements ==
  { [tag |-> "node", attrib |-> NodeAttrib("1"), nds |-> <<>>,
     tags |-> << [k |-> addr_street, v |-> MainSt],
                 [k |-> <<"n","a","m","e">>, v |-> <<"x">>] >>],
    [tag |-> "way", attrib |-> WayAttrib("2"), nds |-> <<"1", "3">>,
     tags |-> << [k |-> addr_street, v |-> <<"A","l"," ","R","o","a","d">>] >>],
    [tag |-> "node", attrib |-> NodeAttrib("3"), nds |-> <<>>, tags |-> <<>>],
    [tag |-> "relation", attrib |-> WayAttrib("4"), nds |-> <<>>,
     tags |-> << [k |-> addr_street, v |-> <<"R","e","l"," ","A","v","e">>] >>],
    [tag |-> "way", attrib |-> WayAttrib("5"), nds |-> <<>>,
     tags |-> << [k |-> <<"n","a","m","e">>, v |-> <<"y">>],
                 [k |-> addr_street, v |-> <<"A"," ","(","1",")">>] >>] }

\* the OSM files: no element occurs twice in a file
OsmFiles ==
  { f \in SeqsUpTo(FileElements, MaxRecords) :
      \A i, j \in DOMAIN f : f[i] = f[j] => i = j }

NoFiles == [opened |-> FALSE]

NoValidator == [calls |-> 0, errors |-> <<>>]

NotRaised == <<"<", "no exception", ">">>

NoAuditor == [key |-> <<>>, expected |-> <<>>]

(***************************************************************************)
(* The state.  osm_project.py first calls the cleaners on audited values   *)
(* (caller = "script"), then runs process_map (caller = "process_map").    *)
(***************************************************************************)
VARIABLES
  caller,           \* which part of osm_project.py runs
  dirty_value,      \* cleanOSM.dirty_value
  mapping,          \* cleanOSM.mapping, in iteration order
  expected_values,  \* cleanOSM.expected_values
  method,           \* the last call on the cleanOSM object
  result,           \* what that call returned
  pass,             \* how many results were fed back as the dirty value
  element,          \* the element iterparse is building or has yielded
  parsing,          \* TRUE between the start and the end event of element
  iter_order,       \* the iteration order the last shape_element call met
  el,               \* what shape_element returned for element
  osm_file,         \* the elements of the OSM file, in document order
  validate,         \* ConvertToCSV.validate
  cursor,           \* how many elements of osm_file the parser has delivered
  pc,               \* the statement process_map or the audit is at
  files,            \* the five CSV files process_map writes
  validator,        \* the cerberus validator: calls made, errors of the last
  raised,           \* the exception process_map ended with
  auditor,          \* the auditOSM object: key, expected
  unique_values,    \* the set audit_key builds
  street_types,     \* the defaultdict(set) audit_street builds, as pairs
  problem_chars,    \* the problem_chars argument of shape_element
  arabic_chars      \* the arabic_chars argument of shape_element

vars == <<caller, dirty_value, mapping, expected_values, method, result, pass,
          element, parsing, iter_order, el, osm_file, validate, cursor, pc,
          files, validator, raised, auditor, unique_values, street_types,
          problem_chars, arabic_chars>>

cleaner_vars == <<dirty_value, mapping, expected_values, method, result, pass>>

map_vars == <<element, parsing, iter_order, el>>

csv_vars == <<osm_file, validate, cursor, pc, files, validator, raised>>

audit_vars == <<auditor, unique_values, street_types>>

arg_vars == <<problem_chars, arabic_chars>>

NoElement == [tag |-> "none", attrib |-> <<>>, tags |-> <<>>, nds |-> <<>>]

NoResult == <<"<", "no result", ">">>

\* cleanOSM(value, mapping, expected_values) in the script
InitScript ==
  /\ caller = "script"
  /\ \E c \in CleanCases :
       /\ dirty_value = c[1]
       /\ mapping = c[2][1]
       /\ expected_values = c[2][2]
  /\ method = "__init__"
  /\ result = NoResult
  /\ pass = 0
  /\ element = NoElement
  /\ parsing = FALSE
  /\ iter_order = <<>>
  /\ el = NoBundle

\* ConvertToCSV(OSM_FILE, validate).process_map() before the first element
InitProcessMap ==
  /\ caller = "process_map"
  /\ dirty_value = <<>>
  /\ mapping = <<>>
  /\ expected_values = <<>>
  /\ method = "none"
  /\ result = NoResult
  /\ pass = 0
  /\ element = NoElement
  /\ parsing = FALSE
  /\ iter_order = <<>>
  /\ el = NoBundle

\* no ConvertToCSV and no auditOSM object is at work
NoFileRun ==
  /\ osm_file = <<>>
  /\ validate = FALSE
  /\ cursor = 0
  /\ pc = "none"
  /\ files = NoFiles
  /\ validator = NoValidator
  /\ raised = NotRaised
  /\ auditor = NoAuditor
  /\ unique_values = {}
  /\ street_types = {}

\* shape_element is called as process_map calls it, with the defaults
\* problem_chars=PROBLEMCHARS, arabic_chars=ARABICKEY of its signature
DefaultArgs == problem_chars = PROBLEMCHARS /\ arabic_chars = ARABICKEY

Init == (InitScript \/ InitProcessMap) /\ NoFileRun /\ DefaultArgs

Call(name, value) ==
  /\ caller = "script"
  /\ method = "__init__"
  /\ method' = name
  /\ result' = value
  /\ UNCHANGED <<caller, arg_vars, dirty_value, mapping, expected_values, pass, map_vars,
                 csv_vars, audit_vars>>

CleanValue == Call("clean_value", clean_value(dirty_value, mapping))

SetToNone == Call("set_to_none", set_to_none(dirty_value))

\* clean_street_name is called on the objects built with a street table
CleanStreetName ==
  /\ <<mapping, expected_values>> \in StreetTables
  /\ Call("clean_street_name",
          clean_street_name(dirty_value, mapping, expected_values))

\* clean_city_name is called on the objects built with a city table
CleanCityName ==
  /\ <<mapping, expected_values>> \in CityTables
  /\ Call("clean_city_name",
          clean_city_name(dirty_value, mapping, expected_values))

\* cleanOSM(result, mapping, expected_values): the cleaned street name is
\* cleaned again with the same mapping and list
Reclean ==
  /\ caller = "script"
  /\ method = "clean_street_name"
  /\ pass < MaxPass
  /\ dirty_value' = result
  /\ method' = "__init__"
  /\ result' = NoResult
  /\ pass' = pass + 1
  /\ UNCHANGED <<caller, arg_vars, mapping, expected_values, map_vars, csv_vars,
                 audit_vars>>

\* get_element, a start event of iterparse: the generator is resumed after
\* the previous element was shaped, and a node or a way opens
StartEvent ==
  /\ caller = "process_map"
  /\ ~parsing
  /\ element = NoElement \/ el # NoBundle
  /\ \E id \in Ids :
       \/ element' = [tag |-> "node", attrib |-> NodeAttrib(id),
                      tags |-> <<>>, nds |-> <<>>]
       \/ element' = [tag |-> "way", attrib |-> WayAttrib(id),
                      tags |-> <<>>, nds |-> <<>>]
  /\ parsing' = TRUE
  /\ iter_order' = <<>>
  /\ el' = NoBundle
  /\ UNCHANGED <<caller, arg_vars, cleaner_vars, csv_vars, audit_vars>>

\* get_element, the events of a tag child: it is appended to the element
TagEvent ==
  /\ caller = "process_map"
  /\ parsing
  /\ Len(element.tags) < MaxTags
  /\ \E t \in TagPool : element' = [element EXCEPT !.tags = Append(@, t)]
  /\ UNCHANGED <<caller, arg_vars, cleaner_vars, parsing, iter_order, el, csv_vars,
                 audit_vars>>

\* get_element, the events of an nd child of a way
NdEvent ==
  /\ caller = "process_map"
  /\ parsing
  /\ element.tag = "way"
  /\ Len(element.nds) < MaxNds
  /\ \E r \in Refs : element' = [element EXCEPT !.nds = Append(@, r)]
  /\ UNCHANGED <<caller, arg_vars, cleaner_vars, parsing, iter_order, el, csv_vars,
                 audit_vars>>

\* get_element, the end event of the node or way: yield elem
EndEvent ==
  /\ caller = "process_map"
  /\ parsing
  /\ parsing' = FALSE
  /\ UNCHANGED <<caller, arg_vars, cleaner_vars, element, iter_order, el, csv_vars,
                 audit_vars>>

\* a shape_element that uses up the sub-tags of the element it shapes
ShapeElementConsuming ==
  /\ caller = "process_map"
  /\ ~parsing
  /\ element # NoElement
  /\ \E o \in DictOrders :
       /\ iter_order' = o
       /\ el' = shape_element(element, PROBLEMCHARS, ARABICKEY,
                              Permute(mapping_street_name, o))
  /\ element' = [element EXCEPT !.tags = <<>>]
  /\ UNCHANGED <<caller, arg_vars, cleaner_vars, parsing, csv_vars, audit_vars>>

\* el = self.shape_element(element), with the default arguments; the method
\* keeps no state, so it can be called on the yielded element again
ShapeElement ==
  /\ caller = "process_map"
  /\ ~parsing
  /\ element # NoElement
  /\ \E o \in DictOrders :
       /\ iter_order' = o
       /\ el' = shape_element(element, PROBLEMCHARS, ARABICKEY,
                              Permute(mapping_street_name, o))
  /\ UNCHANGED <<caller, arg_vars, cleaner_vars, element, parsing, csv_vars,
                 audit_vars>>

(***************************************************************************)
(* ConvertToCSV.shape_element called on its own (caller = "shape_element"), *)
(* with or without exclusion patterns of the caller's.                     *)
(***************************************************************************)
\* sub-tags with each of the keys shape_element cleans, and with keys that
\* only look like them
ShapeTagPool ==
  TagPool \cup
  { [k |-> building, v |-> <<"o","f","f","i","c","e">>],
    [k |-> surface, v |-> <<"p","a","v","i","n">>],
    [k |-> addr_city, v |-> <<"D","u","b","a">>],
    [k |-> <<"B","u","i","l","d","i","n","g">>, v |-> <<"o","f","f","i","c","e">>] }

\* a node or a way with up to MaxTags sub-tags; a way has one member
ShapedElements ==
  { [tag |-> "node", attrib |-> NodeAttrib(id), tags |-> ts, nds |-> <<>>] :
      id \in Ids, ts \in SeqsUpTo(ShapeTagPool, MaxTags) }
  \cup
  { [tag |-> "way", attrib |-> WayAttrib(id), tags |-> ts, nds |-> <<"7">>] :
      id \in Ids, ts \in SeqsUpTo(ShapeTagPool, MaxTags) }

\* problem_chars: the default, or a class that lets a blank in a key pass
ProblemCharsArgs == { PROBLEMCHARS, PROBLEMCHARS \ {" "} }

\* arabic_chars: the default, or the same pattern for the suffix en
ArabicCharsArgs ==
  { ARABICKEY, [suffix |-> <<":","e","n">>, word |-> <<"e","n">>] }

\* an element, and the arguments shape_element is about to be called with
InitShape ==
  /\ caller = "shape_element"
  /\ element \in ShapedElements
  /\ problem_chars \in ProblemCharsArgs
  /\ arabic_chars \in ArabicCharsArgs
  /\ dirty_value = <<>>
  /\ mapping = <<>>
  /\ expected_values = <<>>
  /\ method = "none"
  /\ result = NoResult
  /\ pass = 0
  /\ parsing = FALSE
  /\ iter_order = <<>>
  /\ el = NoBundle
  /\ NoFileRun

\* el = shape_element(element, problem_chars=..., arabic_chars=...)
ShapeElementWith ==
  /\ caller = "shape_element"
  /\ el = NoBundle
  /\ \E o \in DictOrders :
       /\ iter_order' = o
       /\ el' = shape_element(element, problem_chars, arabic_chars,
                              Permute(mapping_street_name, o))
  /\ UNCHANGED <<caller, arg_vars, cleaner_vars, element, parsing, csv_vars,
                 audit_vars>>

NextShape == ShapeElementWith

(***************************************************************************)
(* cleanOSM.clean_street_name statement by statement (caller =             *)
(* "clean_street_name").  pc is the line of clean_osm.py the method is at, *)
(* result is the local clean_name, method the last method called.          *)
(***************************************************************************)
\* cleanOSM(dirty_value, mapping, expected_values).clean_street_name()
InitClean ==
  /\ caller = "clean_street_name"
  /\ \E v \in StreetValues, c \in CleanTables :
       /\ dirty_value = v
       /\ mapping = c[1]
       /\ expected_values = c[2]
  /\ method = "__init__"
  /\ result = NoResult
  /\ pass = 0
  /\ element = NoElement
  /\ parsing = FALSE
  /\ iter_order = <<>>
  /\ el = NoBundle
  /\ osm_file = <<>>
  /\ validate = FALSE
  /\ cursor = 0
  /\ pc = "253"
  /\ files = NoFiles
  /\ validator = NoValidator
  /\ raised = NotRaised
  /\ auditor = NoAuditor
  /\ unique_values = {}
  /\ street_types = {}
  /\ DefaultArgs

\* clean_name = self.name(...) at line `line`, control passes to `next`
Statement(line, name, value, next) ==
  /\ caller = "clean_street_name"
  /\ pc = line
  /\ method' = name
  /\ result' = value
  /\ pc' = next
  /\ UNCHANGED <<caller, arg_vars, dirty_value, mapping, expected_values, pass, map_vars,
                 osm_file, validate, cursor, files, validator, raised,
                 audit_vars>>

UpdateStreetName ==
  Statement("253", "update_street_name",
            update_street_name(dirty_value, mapping), "254")

RemoveBrackets ==
  Statement("254", "remove_brackets", remove_brackets(capwords(result)), "255")

StreetLetterToUppercaseAndRemovegap ==
  Statement("255", "street_letter_to_uppercase_and_removegap",
            street_letter_to_uppercase_and_removegap(result), "256")

SwitchDigitPosition ==
  Statement("256", "switch_digit_position", switch_digit_position(result), "257")

RemoveHypenSpaceAndSwitch ==
  Statement("257", "remove_hypen_space_and_switch",
            remove_hypen_space_and_switch(result), "258")

PutNumberAfterStreet ==
  Statement("258", "put_number_after_street",
            put_number_after_street(result), "259")

\* line 259 applied to self.dirty_value instead of clean_name
AddStreetPrefixOfDirtyValue ==
  Statement("259", "add_street_prefix", add_street_prefix(dirty_value), "260")

AddStreetPrefix ==
  Statement("259", "add_street_prefix", add_street_prefix(result), "260")

RemoveNonStreetValues ==
  Statement("260", "remove_non_street_values",
            remove_non_street_values(result, expected_values), "261")

\* if clean_name != "None": clean_name = self.extract_street(clean_name)
ExtractStreet ==
  /\ result # NoneStr
  /\ Statement("261", "extract_street",
               extract_street(result, expected_values), "263")

SkipExtractStreet ==
  /\ result = NoneStr
  /\ Statement("261", method, result, "263")

\* return clean_name
ReturnCleanName == Statement("263", "clean_street_name", result, "return")

NextClean ==
  \/ UpdateStreetName
  \/ RemoveBrackets
  \/ StreetLetterToUppercaseAndRemovegap
  \/ SwitchDigitPosition
  \/ RemoveHypenSpaceAndSwitch
  \/ PutNumberAfterStreet
  \/ AddStreetPrefix
  \/ RemoveNonStreetValues
  \/ ExtractStreet
  \/ SkipExtractStreet
  \/ ReturnCleanName

(***************************************************************************)
(* ConvertToCSV.process_map on an OSM file (caller = "ConvertToCSV").  pc   *)
(* names the statement the method is at.                                   *)
(***************************************************************************)
\* the locals of the cleaning calls and of the event loop, not in use
NoScript ==
  /\ dirty_value = <<>>
  /\ mapping = <<>>
  /\ expected_values = <<>>
  /\ method = "none"
  /\ result = NoResult
  /\ pass = 0
  /\ element = NoElement
  /\ parsing = FALSE
  /\ iter_order = <<>>
  /\ el = NoBundle

\* ConvertToCSV(osm_file, validate)
InitConvert ==
  /\ caller = "ConvertToCSV"
  /\ NoScript
  /\ osm_file \in OsmFiles
  /\ validate \in BOOLEAN
  /\ cursor = 0
  /\ pc = "process_map"
  /\ files = NoFiles
  /\ validator = NoValidator
  /\ raised = NotRaised
  /\ auditor = NoAuditor
  /\ unique_values = {}
  /\ street_types = {}
  /\ DefaultArgs

\* UnicodeDictWriter(file, fieldnames) after writeheader()
Writer(fieldnames) == [header |-> fieldnames, rows |-> <<>>]

\* DictWriter.writerow: the values of row under the field names of the file
writerow(writer, row) ==
  [writer EXCEPT !.rows = Append(@, [f \in Range(writer.header) |-> row[f]])]

RECURSIVE writerows(_, _)
writerows(writer, rows) ==
  IF rows = <<>> THEN writer
  ELSE writerows(writerow(writer, Head(rows)), Tail(rows))

\* process_map up to the loop: the files are opened, the headers written,
\* the validator made
ProcessMap ==
  /\ caller = "ConvertToCSV"
  /\ pc = "process_map"
  /\ files' = [opened |-> TRUE,
               nodes |-> Writer(NODE_FIELDS),
               nodes_tags |-> Writer(NODE_TAGS_FIELDS),
               ways |-> Writer(WAY_FIELDS),
               ways_nodes |-> Writer(WAY_NODES_FIELDS),
               ways_tags |-> Writer(WAY_TAGS_FIELDS)]
  /\ validator' = [calls |-> 0, errors |-> <<>>]
  /\ pc' = "get_element"
  /\ UNCHANGED <<caller, arg_vars, cleaner_vars, map_vars, osm_file, validate, cursor,
                 raised, audit_vars>>

\* the elements get_element(tags=('node', 'way')) has yet to yield
Upcoming(file, from) ==
  { i \in (from + 1)..Len(file) : file[i].tag \in {"node", "way"} }

\* for element in self.get_element(...): the next node or way at its end
\* event, or the end of the loop and of the with block
GetElement ==
  /\ caller = "ConvertToCSV"
  /\ pc = "get_element"
  /\ IF Upcoming(osm_file, cursor) = {}
     THEN /\ cursor' = Len(osm_file)
          /\ pc' = "closed"
          /\ UNCHANGED element
     ELSE /\ cursor' = Min(Upcoming(osm_file, cursor))
          /\ element' = osm_file[cursor']
          /\ pc' = "shape_element"
  /\ UNCHANGED <<caller, arg_vars, cleaner_vars, parsing, iter_order, el, osm_file,
                 validate, files, validator, raised, audit_vars>>

\* a loop that hands every bundle to the validator
ShapeRecordAlwaysValidated ==
  /\ caller = "ConvertToCSV"
  /\ pc = "shape_element"
  /\ \E o \in DictOrders :
       /\ iter_order' = o
       /\ el' = shape_element(element, PROBLEMCHARS, ARABICKEY,
                              Permute(mapping_street_name, o))
  /\ pc' = "validate_element"
  /\ UNCHANGED <<caller, arg_vars, cleaner_vars, element, parsing, osm_file, validate,
                 cursor, files, validator, raised, audit_vars>>

\* el = self.shape_element(element); if el: if self.validate is True: ...
ShapeRecord ==
  /\ caller = "ConvertToCSV"
  /\ pc = "shape_element"
  /\ \E o \in DictOrders :
       /\ iter_order' = o
       /\ el' = shape_element(element, PROBLEMCHARS, ARABICKEY,
                              Permute(mapping_street_name, o))
  /\ pc' = IF validate THEN "validate_element" ELSE "writerow"
  /\ UNCHANGED <<caller, arg_vars, cleaner_vars, element, parsing, osm_file, validate,
                 cursor, files, validator, raised, audit_vars>>

\* the errors cerberus reports for one field of a row
FieldErrors ==
  { [id |-> "must be of integer type"],
    [value |-> "null value not allowed"] }

\* validator.errors after validator.validate(bundle, schema): empty when the
\* bundle conforms, else the errors of some of its row kinds
Verdicts(bundle) ==
  UNION { [kinds -> FieldErrors] : kinds \in SUBSET (DOMAIN bundle) }

\* the text of the exception validate_element raises
Message(field, errors) ==
  <<"Element of type", field, "has the following errors:", errors>>

\* self.validate_element(el, validator): returns when the validator accepts
\* the bundle, else raises with the first item of validator.errors, and the
\* exception leaves process_map through the with block
ValidateElement ==
  /\ caller = "ConvertToCSV"
  /\ pc = "validate_element"
  /\ \E errors \in Verdicts(el) :
       /\ validator' = [calls |-> validator.calls + 1, errors |-> errors]
       /\ IF DOMAIN errors = {}
          THEN pc' = "writerow" /\ UNCHANGED raised
          ELSE /\ pc' = "raised"
               /\ \E field \in DOMAIN errors :
                    raised' = Message(field, errors[field])
  /\ UNCHANGED <<caller, arg_vars, cleaner_vars, map_vars, osm_file, validate, cursor,
                 files, audit_vars>>

\* a loop that goes on to the tag and member rows without the primary row
WritePrimaryOmitted ==
  /\ caller = "ConvertToCSV"
  /\ pc = "writerow"
  /\ pc' = IF element.tag = "node" THEN "node_tags" ELSE "way_nodes"
  /\ UNCHANGED <<caller, arg_vars, cleaner_vars, map_vars, osm_file, validate, cursor,
                 files, validator, raised, audit_vars>>

\* nodes_writer.writerow(el['node']) or ways_writer.writerow(el['way'])
WritePrimary ==
  /\ caller = "ConvertToCSV"
  /\ pc = "writerow"
  /\ IF element.tag = "node"
     THEN /\ files' = [files EXCEPT !.nodes = writerow(@, el.node)]
          /\ pc' = "node_tags"
     ELSE /\ files' = [files EXCEPT !.ways = writerow(@, el.way)]
          /\ pc' = "way_nodes"
  /\ UNCHANGED <<caller, arg_vars, cleaner_vars, map_vars, osm_file, validate, cursor,
                 validator, raised, audit_vars>>

\* a loop that leaves the member rows out
WriteWayNodesSkipped ==
  /\ caller = "ConvertToCSV"
  /\ pc = "way_nodes"
  /\ pc' = "way_tags"
  /\ UNCHANGED <<caller, arg_vars, cleaner_vars, map_vars, osm_file, validate, cursor,
                 files, validator, raised, audit_vars>>

\* way_nodes_writer.writerows(el['way_nodes'])
WriteWayNodes ==
  /\ caller = "ConvertToCSV"
  /\ pc = "way_nodes"
  /\ files' = [files EXCEPT !.ways_nodes = writerows(@, el.way_nodes)]
  /\ pc' = "way_tags"
  /\ UNCHANGED <<caller, arg_vars, cleaner_vars, map_vars, osm_file, validate, cursor,
                 validator, raised, audit_vars>>

\* node_tags_writer.writerows(el['node_tags']) or
\* way_tags_writer.writerows(el['way_tags']), the last statement of the loop
WriteTags ==
  /\ caller = "ConvertToCSV"
  /\ pc \in {"node_tags", "way_tags"}
  /\ IF pc = "node_tags"
     THEN files' = [files EXCEPT !.nodes_tags = writerows(@, el.node_tags)]
     ELSE files' = [files EXCEPT !.ways_tags = writerows(@, el.way_tags)]
  /\ pc' = "get_element"
  /\ UNCHANGED <<caller, arg_vars, cleaner_vars, map_vars, osm_file, validate, cursor,
                 validator, raised, audit_vars>>

NextConvert ==
  \/ ProcessMap
  \/ GetElement
  \/ ShapeRecord
  \/ ValidateElement
  \/ WritePrimary
  \/ WriteWayNodes
  \/ WriteTags

(***************************************************************************)
(* auditOSM (audit_osm.py): audit_key and audit_street on an OSM file       *)
(* (caller = "audit_key" or "audit_street").                               *)
(***************************************************************************)
AlRoad == <<"A","l"," ","R","o","a","d">>

\* the keys and the lists of expected values the script audits with
AuditKeys == { addr_street, <<"n","a","m","e">> }

AuditExpected == { <<>>, << AlRoad >>, << <<"R","o","a","d">> >> }

\* auditOSM(osm_file, key, expected_values), and the method called on it
InitAudit ==
  /\ caller \in {"audit_key", "audit_street"}
  /\ NoScript
  /\ osm_file \in OsmFiles
  /\ auditor \in [key : AuditKeys, expected : AuditExpected]
  /\ cursor = 0
  /\ pc = "iterparse"
  /\ unique_values = {}
  /\ street_types = {}
  /\ validate = FALSE
  /\ files = NoFiles
  /\ validator = NoValidator
  /\ raised = NotRaised
  /\ DefaultArgs

\* self.is_key_match(tag)
is_key_match(elem, key) == elem.k = key

\* street_type_re.search(street_name) for the pattern \b\S+\.?$ : the match
\* starts at the first word boundary from which no whitespace follows up to
\* the end of the string (or up to its final newline)
street_type_re(street_name) ==
  LET n      == Len(street_name)
      stop   == IF n > 0 /\ street_name[n] = "\n" THEN n ELSE n + 1
      starts == { i \in 1..(stop - 1) :
                    /\ WordBoundary(street_name, i)
                    /\ \A j \in i..(stop - 1) : ~IsSpace(street_name[j]) }
  IN  IF starts = {} THEN NoMatch
      ELSE [end |-> stop, repl |-> Slice(street_name, Min(starts), stop)]

\* audit_street_type(street_types, street_name), street_types[t].add(name)
\* being the pair <<t, name>>
audit_street_type(types, street_name, expected) ==
  LET m == street_type_re(street_name)
  IN  IF m # NoMatch /\ m.repl \notin Range(expected)
      THEN types \cup { <<m.repl, street_name>> }
      ELSE types

\* the element a start event delivers: its attributes are there, of its
\* children those the parser has read so far (any number of the first ones)
AtStartEvent(elem) ==
  { [elem EXCEPT !.tags = SubSeq(@, 1, n)] : n \in 0..Len(elem.tags) }

\* the sub-tags of elem with the audited key, none for an element that is
\* neither node nor way
MatchingTags(elem, key) ==
  IF elem.tag \in {"node", "way"}
  THEN { t \in Range(elem.tags) : is_key_match(t, key) }
  ELSE {}

\* audit_key, one pass of the loop over the start events
AuditKeyEvent ==
  /\ caller = "audit_key"
  /\ pc = "iterparse"
  /\ cursor < Len(osm_file)
  /\ cursor' = cursor + 1
  /\ element' \in AtStartEvent(osm_file[cursor'])
  /\ unique_values' =
       unique_values \cup
         { t.v : t \in { m \in MatchingTags(element', auditor.key) :
                           m.v \notin Range(auditor.expected) } }
  /\ UNCHANGED <<caller, arg_vars, cleaner_vars, parsing, iter_order, el, osm_file,
                 validate, pc, files, validator, raised, auditor, street_types>>

\* the lists that hold every element of the set once
ListsOf(S) == { l \in [1..Cardinality(S) -> S] : Range(l) = S }

\* audit_key after the last event: return list(unique_values)
AuditKeyReturn ==
  /\ caller = "audit_key"
  /\ pc = "iterparse"
  /\ cursor = Len(osm_file)
  /\ pc' = "returned"
  /\ result' \in ListsOf(unique_values)
  /\ UNCHANGED <<caller, arg_vars, dirty_value, mapping, expected_values, method, pass,
                 map_vars, osm_file, validate, cursor, files, validator,
                 raised, audit_vars>>

\* audit_street, one pass of the loop over the start events
AuditStreetEvent ==
  /\ caller = "audit_street"
  /\ pc = "iterparse"
  /\ cursor < Len(osm_file)
  /\ cursor' = cursor + 1
  /\ element' \in AtStartEvent(osm_file[cursor'])
  /\ street_types' =
       street_types \cup
         UNION { audit_street_type({}, t.v, auditor.expected) :
                   t \in MatchingTags(element', auditor.key) }
  /\ UNCHANGED <<caller, arg_vars, cleaner_vars, parsing, iter_order, el, osm_file,
                 validate, pc, files, validator, raised, auditor,
                 unique_values>>

\* audit_street after the last event: return street_types
AuditStreetReturn ==
  /\ caller = "audit_street"
  /\ pc = "iterparse"
  /\ cursor = Len(osm_file)
  /\ pc' = "returned"
  /\ result' = street_types
  /\ UNCHANGED <<caller, arg_vars, dirty_value, mapping, expected_values, method, pass,
                 map_vars, osm_file, validate, cursor, files, validator,
                 raised, audit_vars>>

NextAudit ==
  \/ AuditKeyEvent
  \/ AuditKeyReturn
  \/ AuditStreetEvent
  \/ AuditStreetReturn

Next ==
  \/ CleanValue
  \/ SetToNone
  \/ CleanStreetName
  \/ CleanCityName
  \/ Reclean
  \/ StartEvent
  \/ TagEvent
  \/ NdEvent
  \/ EndEvent
  \/ ShapeElement

Spec == Init /\ [][Next]_vars

\* ConvertToCSV(OSM_FILE, validate).process_map()
ConvertSpec == InitConvert /\ [][NextConvert]_vars

\* auditOSM(OSM_FILE, key, expected).audit_key() or .audit_street()
AuditSpec == InitAudit /\ [][NextAudit]_vars

\* cleanOSM(value, mapping, expected_values).clean_street_name()
CleanSpec == InitClean /\ [][NextClean]_vars

\* ConvertToCSV(...).shape_element(element, problem_chars=..., arabic_chars=...)
ShapeSpec == InitShape /\ [][NextShape]_vars

(***************************************************************************)
(* Properties.                                                             *)
(***************************************************************************)
E11 == <<"E","1","1">>

Street11E == <<"S","t","r","e","e","t"," ","1","1","E">>

Duba == <<"D","u","b","a">>

Dubai == <<"D","u","b","a","i">>

YesMosque == <<"y","e","s",";","m","o","s","q","u","e">>

Mosque == <<"m","o","s","q","u","e">>

LakeTowersDubai ==
  <<"J","u","m","e","r","i","a","h"," ","L","a","k","e"," ",
    "T","o","w","e","r","s",","," ","D","u","b","a","i">>

StreetCalled == caller = "script" /\ method = "clean_street_name"

CityCalled == caller = "script" /\ method = "clean_city_name"

Shaped == caller = "process_map" /\ el # NoBundle

\* the tag rows and the primary row of the bundle el
TagRows == IF element.tag = "node" THEN el.node_tags ELSE el.way_tags

PrimaryRow == IF element.tag = "node" THEN el.node ELSE el.way

\* C1: cleaning the result of clean_street_name again, with the same mapping
\* and list, returns that result unchanged
C1_Idempotent == (StreetCalled /\ pass > 0) => result = dirty_value

\* C2: a shaped way has one member row per member reference, the i-th row
\* (from 0) holding the i-th reference and position i
C2_MemberRowsInOrder ==
  (Shaped /\ element.tag = "way") =>
    /\ Len(el.way_nodes) = Len(element.nds)
    /\ \A i \in 1..Len(element.nds) :
         /\ el.way_nodes[i].node_id = element.nds[i]
         /\ el.way_nodes[i].position = i - 1

C2_Witness ==
  /\ Shaped
  /\ element.tag = "way"
  /\ element.nds = <<"8", "7">>
  /\ el.way_nodes[1].position = 0
  /\ el.way_nodes[2].position = 1
  /\ el.way_nodes[1].node_id = "8"

\* C3: every tag row and every member row of a bundle has the id of the
\* bundle's primary row, which is the id of the element
C3_RowsCarryOwnId ==
  Shaped =>
    /\ PrimaryRow.id = element.attrib.id
    /\ \A i \in DOMAIN TagRows : TagRows[i].id = PrimaryRow.id
    /\ element.tag = "way" =>
         \A i \in DOMAIN el.way_nodes : el.way_nodes[i].id = PrimaryRow.id

C3_Witness ==
  /\ Shaped
  /\ element.tag = "way"
  /\ element.attrib.id = "2"
  /\ Len(el.way_tags) = 2
  /\ Len(el.way_nodes) = 2
  /\ el.way_tags[2].id = "2"
  /\ el.way_nodes[2].id = "2"

\* the raw key a tag row was built from
RawKeyOf(row) ==
  IF row.type = default_tag_type THEN row.key ELSE row.type \o <<":">> \o row.key

KeyExcluded(k) == search_class(PROBLEMCHARS, k) \/ search_arabic(ARABICKEY, k)

\* C4: a sub-tag whose key matches an exclusion pattern gives no tag row,
\* and the other sub-tags of the element still give one row each
C4_ExcludedKeysDropped ==
  Shaped =>
    /\ \A j \in DOMAIN element.tags :
         KeyExcluded(element.tags[j].k) =>
           \A i \in DOMAIN TagRows : RawKeyOf(TagRows[i]) # element.tags[j].k
    /\ Len(TagRows) =
         Cardinality({ j \in DOMAIN element.tags : ~KeyExcluded(element.tags[j].k) })

C4_Witness ==
  /\ Shaped
  /\ Len(element.tags) = 2
  /\ element.tags[1].k = <<"n","a","m","e",":","a","r">>
  /\ element.tags[2].k = <<"n","a","m","e">>
  /\ Len(TagRows) = 1
  /\ TagRows[1].key = <<"n","a","m","e">>

\* C5 as claimed: E11 with a list that holds Street is nulled
C5_E11Nulled ==
  (StreetCalled /\ dirty_value = E11 /\ Street \in Range(expected_values))
    => result = NoneStr

\* no key of the mapping occurs in E11, so the substitution leaves it alone
NoKeyInE11 == \A k \in DOMAIN mapping : ~Contains(E11, mapping[k][1])

\* C5: E11 with a list that holds Street and a mapping without a key inside
\* E11 becomes Street 11E: the swap gives 11E and the street word is put in
\* front of it, so the value is not nulled
C5_E11Prefixed ==
  (StreetCalled /\ dirty_value = E11 /\ Street \in Range(expected_values)
     /\ NoKeyInE11)
    => result = Street11E

C5_Witness ==
  /\ StreetCalled
  /\ dirty_value = E11
  /\ Street \in Range(expected_values)
  /\ NoKeyInE11
  /\ mapping = mapping_street_name
  /\ result = Street11E

\* C6 as claimed: a canonical city comes out of the canonical check only for
\* an input whose title-cased form equals it, and a mapping key whose
\* title-cased form equals no canonical city gives its mapped value
C6_ExactCanonical ==
  CityCalled =>
    /\ (dirty_value \notin Keys(mapping) /\ result \in Range(expected_values))
         => capwords(dirty_value) = result
    /\ (dirty_value \in Keys(mapping)
          /\ capwords(dirty_value) \notin Range(expected_values))
         => result = Lookup(mapping, dirty_value)

\* the positions of the canonical cities found inside the title-cased input
CitiesWithin ==
  { k \in DOMAIN expected_values :
      Contains(capwords(dirty_value), expected_values[k]) }

\* C6: the result is the first canonical city, in list order, found inside
\* the title-cased input; a mapping key whose title-cased form holds no
\* canonical city gives its mapped value
C6_SubstringCanonical ==
  CityCalled =>
    /\ CitiesWithin # {} => result = expected_values[Min(CitiesWithin)]
    /\ (CitiesWithin = {} /\ dirty_value \in Keys(mapping))
         => result = Lookup(mapping, dirty_value)

C6_Witness ==
  /\ CityCalled
  /\ dirty_value = LakeTowersDubai
  /\ expected_values = expected_cities
  /\ result = Dubai

\* C7: an input equal to a canonical city is returned as that city, whether
\* or not it is a mapping key, and Duba, a key and no canonical city, gives
\* its mapped value Dubai
C7_CanonicalFirst ==
  CityCalled =>
    /\ dirty_value \in Range(expected_values) => result = dirty_value
    /\ (dirty_value = Duba /\ Duba \notin Range(expected_values)
          /\ Duba \in Keys(mapping))
         => result = Dubai

\* C8: clean_value returns the mapped value of a key of the mapping and any
\* other value unchanged
C8_ExactKeyLookup ==
  (caller = "script" /\ method = "clean_value") =>
    /\ \A k \in DOMAIN mapping : dirty_value = mapping[k][1] => result = mapping[k][2]
    /\ (\A k \in DOMAIN mapping : dirty_value # mapping[k][1]) => result = dirty_value
    /\ (dirty_value = YesMosque /\ <<YesMosque, Mosque>> \in Range(mapping))
         => result = Mosque

C8_Witness ==
  /\ caller = "script"
  /\ method = "clean_value"
  /\ dirty_value = YesMosque
  /\ mapping = mapping_building
  /\ result = Mosque

\* the positions of the sub-tags of element with the raw key oneway
OnewayTags == { j \in DOMAIN element.tags : element.tags[j].k = oneway }

\* the tag rows of el built from a raw key oneway
OnewayRows ==
  { i \in DOMAIN TagRows :
      TagRows[i].key = oneway /\ TagRows[i].type = default_tag_type }

\* C9: set_to_none returns None for every value, and every tag row of a
\* sub-tag with the raw key oneway has the value None
C9_OnewayIsNone ==
  /\ (caller = "script" /\ method = "set_to_none") => result = NoneStr
  /\ Shaped =>
       /\ Cardinality(OnewayRows) = Cardinality(OnewayTags)
       /\ \A i \in OnewayRows : TagRows[i].value = NoneStr

C9_Witness ==
  /\ Shaped
  /\ Len(element.tags) = 2
  /\ element.tags[1] = [k |-> oneway, v |-> <<"y","e","s">>]
  /\ element.tags[2] = [k |-> oneway, v |-> <<"y","e","s">>]
  /\ TagRows[1].value = NoneStr
  /\ TagRows[2].value = NoneStr

\* C10: shaping the same element again gives the same bundle, whatever the
\* order in which the mapping table is iterated
C10_SameBundleAgain ==
  [][(caller = "process_map" /\ element' = element
        /\ el # NoBundle /\ el' # NoBundle) => el' = el]_vars

\* the sub-tags of element that no exclusion pattern drops, in source order
KeptTags == SelectSeq(element.tags, LAMBDA t : ~KeyExcluded(t.k))

AddrStreetName ==
  <<"a","d","d","r",":","s","t","r","e","e","t",":","n","a","m","e">>

NameEn == <<"N","a","m","e",":","e","n">>

\* the row of the i-th kept sub-tag splits its key k as claimed: type and
\* key put k together again, or type is regular and key is k
SplitsKey(i) ==
  LET k   == KeptTags[i].k
      row == TagRows[i]
  IN  IF LOWER_COLON(k)
      THEN row.type \o <<":">> \o row.key = k
      ELSE row.type = default_tag_type /\ row.key = k

\* C11 as claimed: the key of a row with a namespace is the single segment
\* after the separator, so it holds no colon
C11_KeyIsOneSegment ==
  (Shaped /\ Len(TagRows) = Len(KeptTags)) =>
    \A i \in DOMAIN TagRows :
      /\ SplitsKey(i)
      /\ LOWER_COLON(KeptTags[i].k) => ":" \notin Range(TagRows[i].key)

\* C11: a kept key that matches LOWER_COLON is split at its first colon, the
\* type being the segment before it and the key all that follows (further
\* colons included); any other key gets the type regular and stays whole,
\* so a key without a colon always has the type regular
C11_SplitAtFirstColon ==
  (Shaped /\ Len(TagRows) = Len(KeptTags)) =>
    \A i \in DOMAIN TagRows :
      /\ SplitsKey(i)
      /\ LOWER_COLON(KeptTags[i].k) => ":" \notin Range(TagRows[i].type)
      /\ ":" \notin Range(KeptTags[i].k) => TagRows[i].type = default_tag_type

C11_Witness ==
  /\ Shaped
  /\ Len(element.tags) = 2
  /\ element.tags[1].k = AddrStreetName
  /\ element.tags[2].k = NameEn
  /\ TagRows[1].type = <<"a","d","d","r">>
  /\ TagRows[1].key = <<"s","t","r","e","e","t",":","n","a","m","e">>
  /\ TagRows[2].type = default_tag_type
  /\ TagRows[2].key = NameEn

CleanerMethods ==
  { "clean_value", "set_to_none", "clean_street_name", "clean_city_name" }

\* the cleaner has returned from one of its four entry points
Cleaned == caller = "script" /\ method \in CleanerMethods

\* no index of name at which the pattern of the match function matches
Untriggered(matches) == \A i \in DOMAIN matches : matches[i] = NoMatch

\* every rewrite step of clean_street_name whose pattern matches nowhere in
\* name returns name
StepsPassThrough(name) ==
  /\ Untriggered([i \in 1..Len(name) |-> brackets_regex(name, i)])
       => remove_brackets(name) = name
  /\ Untriggered([i \in 1..Len(name) |-> letter_regex(name, i)])
       => street_letter_to_uppercase_and_removegap(name) = name
  /\ Untriggered([i \in 1..Len(name) |-> switch_regex(name, i)])
       => switch_digit_position(name) = name
  /\ Untriggered([i \in 1..Len(name) |-> hyphen_regex(name, i)])
       => remove_hypen_space_and_switch(name) = name
  /\ Untriggered([i \in 1..Len(name) |-> suffix_regex(name, i)])
       => put_number_after_street(name) = name
  /\ ( /\ Untriggered([i \in 1..Len(name) |-> prefix_regex(name, i)])
       /\ Untriggered([i \in 1..Len(name) |-> bare_number_regex(name, i)]) )
       => add_street_prefix(name) = name

\* no key of the mapping occurs in name as a whole word
NoKeyTriggered(name) ==
  \A k \in DOMAIN mapping :
    Untriggered([i \in 1..Len(name) |->
                  key_regex(mapping[k][1], mapping[k][2], name, i)])

\* C12: each of clean_value, set_to_none, clean_street_name and
\* clean_city_name returns a string for every input (the empty string,
\* digits, punctuation and non-Latin text included), never an exception or
\* another object, and a step whose pattern does not match the value returns
\* the value as it is
C12_Total ==
  /\ Cleaned => IsString(result)
  /\ (caller = "script" /\ method = "__init__") =>
       /\ StepsPassThrough(dirty_value)
       /\ NoKeyTriggered(dirty_value) =>
            update_street_name(dirty_value, mapping) = dirty_value

DegenerateValues ==
  { <<>>, <<"4","2">>, <<"(","!",")">>, <<Sheen, Sheen, " ", Sheen>> }

C12_Witness ==
  /\ Cleaned
  /\ method = "clean_street_name"
  /\ dirty_value \in DegenerateValues
  /\ dirty_value = <<"4","2">> => result = Street \o <<" ","4","2">>
  /\ dirty_value # <<"4","2">> => result = NoneStr

SibaytahSt == <<"s","i","b","a","y","t","a","h"," ","s","t">>

SibaytahStreet ==
  <<"S","i","b","a","y","t","a","h"," ","S","t","r","e","e","t">>

\* clean_street_name is called on 'sibaytah st' with {'st': 'Street'} and a
\* list that holds 'Street'
SibaytahCase ==
  /\ caller = "script"
  /\ dirty_value = SibaytahSt
  /\ mapping = mapping_st
  /\ Street \in Range(expected_values)

\* C15: clean_street_name turns 'sibaytah st' into 'Sibaytah Street' when
\* the mapping is {'st': 'Street'} and the list holds 'Street': the token
\* 'st' alone is expanded, capwords title-cases the value, and no later step
\* changes it
C15_SibaytahStreet ==
  SibaytahCase =>
    /\ update_street_name(dirty_value, mapping)
         = <<"s","i","b","a","y","t","a","h"," ">> \o Street
    /\ street_rewrite(dirty_value, mapping)
         = capwords(update_street_name(dirty_value, mapping))
    /\ method = "clean_street_name" => result = SibaytahStreet

C15_Witness ==
  SibaytahCase /\ method = "clean_street_name" /\ result = SibaytahStreet

NodeFieldSet ==
  { "id", "lat", "lon", "user", "uid", "version", "changeset", "timestamp" }

WayFieldSet == { "id", "user", "uid", "version", "changeset", "timestamp" }

\* C16: the primary row of a node has exactly the eight fields id, lat, lon,
\* user, uid, version, changeset, timestamp and that of a way exactly the six
\* fields id, user, uid, version, changeset, timestamp, each holding the
\* attribute of that name; the bundle of a node has no member rows, the
\* bundle of a way always has the collection, empty for a way without
\* references
C16_PrimaryRowFields ==
  Shaped =>
    /\ element.tag = "node" =>
         /\ DOMAIN el = { "node", "node_tags" }
         /\ DOMAIN el.node = NodeFieldSet
         /\ \A f \in NodeFieldSet : el.node[f] = element.attrib[f]
    /\ element.tag = "way" =>
         /\ DOMAIN el = { "way", "way_nodes", "way_tags" }
         /\ DOMAIN el.way = WayFieldSet
         /\ \A f \in WayFieldSet : el.way[f] = element.attrib[f]
         /\ Len(el.way_nodes) = Len(element.nds)

C16_Witness ==
  /\ Shaped
  /\ element.tag = "way"
  /\ "visible" \in DOMAIN element.attrib
  /\ element.nds = <<>>
  /\ el.way_nodes = <<>>
  /\ el.way.id = "2"

\* a step of shape_element: process_map is between the end event of an
\* element and the next start event
ShapeStep == caller = "process_map" /\ ~parsing /\ ~parsing'

\* a step in which a method of the cleanOSM object returns
CleanerStep ==
  caller = "script" /\ method = "__init__" /\ method' \in CleanerMethods

\* C19: shape_element leaves the element it is given as it was (attributes,
\* sub-tags, member references), and a cleanOSM method leaves the mapping
\* and the list of expected values of its object as they were
C19_InputsUnchanged ==
  [][ /\ ShapeStep => element' = element
      /\ CleanerStep =>
           /\ mapping' = mapping
           /\ expected_values' = expected_values
           /\ dirty_value' = dirty_value ]_vars

\* a street value is cleaned in the tag row while the element keeps it raw
C19_Witness ==
  /\ Shaped
  /\ Len(element.tags) = 2
  /\ element.tags[1].k = addr_street
  /\ Len(TagRows) = 2
  /\ TagRows[1].value # element.tags[1].v
  /\ element.tag = "way" => Len(element.nds) = 2

\* the k-th key of the mapping occurs in name as a whole word
KeyOccurs(k, name) ==
  /\ Contains(name, mapping[k][1])
  /\ ~Untriggered([i \in 1..Len(name) |->
                    key_regex(mapping[k][1], mapping[k][2], name, i)])

\* C20: in the value update_street_name returns, no key of the mapping that
\* occurred as a whole word in the dirty value occurs as a whole word any
\* more: each has been replaced by its mapped value, whichever order the
\* mapping is iterated in
C20_EveryKeyReplaced ==
  StreetCalled =>
    \A k \in DOMAIN mapping :
      KeyOccurs(k, dirty_value)
        => ~KeyOccurs(k, update_street_name(dirty_value, mapping))

\* the bundles of the elements of the file, NoBundle for an element that is
\* neither node nor way
Bundles ==
  [i \in DOMAIN osm_file |->
     shape_element(osm_file[i], PROBLEMCHARS, ARABICKEY, mapping_street_name)]

\* the rows of one kind in a bundle
KindRows(bundle, kind) ==
  IF kind \notin DOMAIN bundle THEN <<>>
  ELSE IF kind \in {"node", "way"} THEN <<bundle[kind]>>
  ELSE bundle[kind]

\* the rows of one kind in the first n of the bundles, in file order
RowsOf(bundles, kind, n) ==
  LET upto[i \in 0..n] ==
        IF i = 0 THEN <<>> ELSE upto[i - 1] \o KindRows(bundles[i], kind)
  IN  upto[n]

\* the five files hold the rows of the first n elements of the file and
\* nothing else
HoldRowsOf(n) ==
  \A bundles \in {Bundles} :
    /\ files.nodes.rows = RowsOf(bundles, "node", n)
    /\ files.nodes_tags.rows = RowsOf(bundles, "node_tags", n)
    /\ files.ways.rows = RowsOf(bundles, "way", n)
    /\ files.ways_nodes.rows = RowsOf(bundles, "way_nodes", n)
    /\ files.ways_tags.rows = RowsOf(bundles, "way_tags", n)

\* process_map is between two records, or past the last one
BetweenRecords ==
  caller = "ConvertToCSV" /\ pc \in {"get_element", "closed"}

\* C13: with validation on, a bundle the validator rejects makes process_map
\* raise a message that names one row kind of the bundle and the errors the
\* validator holds for it, before any row of that record is written, the
\* rows of the earlier records staying in the files; with validation off the
\* validator is never called, nothing is raised and every bundle is written
C13_RejectedBeforeWritten ==
  caller = "ConvertToCSV" =>
    /\ pc = "raised" =>
         /\ validate
         /\ raised[2] \in DOMAIN el \cap DOMAIN validator.errors
         /\ raised = Message(raised[2], validator.errors[raised[2]])
         /\ HoldRowsOf(cursor - 1)
    /\ ~validate =>
         /\ validator.calls = 0
         /\ raised = NotRaised
         /\ pc # "raised"
         /\ pc \in {"get_element", "closed"} => HoldRowsOf(cursor)

C13_Witness ==
  /\ caller = "ConvertToCSV"
  /\ pc = "raised"
  /\ cursor = 2
  /\ osm_file[1].tag = "node"
  /\ osm_file[2].tag = "way"
  /\ raised[2] = "way_nodes"
  /\ Len(files.nodes.rows) = 1
  /\ Len(files.nodes_tags.rows) = 2
  /\ files.ways.rows = <<>>
  /\ validator.calls = 2

\* the ids of the first n elements of the file
IdsUpTo(n) == { osm_file[i].attrib.id : i \in 1..n }

\* the rows of all five files
AllRows ==
  Range(files.nodes.rows) \cup Range(files.nodes_tags.rows)
    \cup Range(files.ways.rows) \cup Range(files.ways_nodes.rows)
    \cup Range(files.ways_tags.rows)

\* C14: whenever process_map is between two records, the files hold one
\* primary row per node or way processed so far, the tag rows and the member
\* rows of exactly those records, and no row of a record that comes later
C14_CompleteBetweenRecords ==
  BetweenRecords =>
    /\ HoldRowsOf(cursor)
    /\ Len(files.nodes.rows) + Len(files.ways.rows)
         = Cardinality(Upcoming(osm_file, 0) \ Upcoming(osm_file, cursor))
    /\ \A row \in AllRows : row.id \in IdsUpTo(cursor)

C14_Witness ==
  /\ BetweenRecords
  /\ pc = "get_element"
  /\ cursor = 1
  /\ Len(osm_file) = 2
  /\ osm_file[1].tag = "way"
  /\ osm_file[2].tag = "node"
  /\ Len(osm_file[2].tags) = 2
  /\ Len(files.ways.rows) = 1
  /\ Len(files.ways_nodes.rows) = 2
  /\ Len(files.ways_tags.rows) = 1
  /\ files.nodes.rows = <<>>
  /\ files.nodes_tags.rows = <<>>

\* the sub-tags with the audited key of the nodes and ways of the file
AuditedTags ==
  UNION { MatchingTags(osm_file[i], auditor.key) : i \in DOMAIN osm_file }

\* C17: the list audit_key returns holds, once each, exactly the values of
\* the sub-tags of nodes and ways whose key is the audited key and whose
\* value is not an expected value
C17_ExactlyTheUnexpected ==
  (caller = "audit_key" /\ pc = "returned") =>
    /\ Range(result)
         = { t.v : t \in { m \in AuditedTags :
                             m.v \notin Range(auditor.expected) } }
    /\ Len(result) = Cardinality(Range(result))

\* the last of the whitespace-delimited tokens of a value, <<>> for a value
\* without a token
TrailingToken(value) ==
  LET tokens == WordsFrom(value, 1, <<>>)
  IN  IF tokens = <<>> THEN <<>> ELSE tokens[Len(tokens)]

\* value is stored under the street type t
InBucket(t, value) == <<t, value>> \in street_types

\* C18: in what audit_street returns, every value of a sub-tag with the
\* audited key is in the bucket of its trailing whitespace-delimited token
\* when that token is not an expected one, and in no bucket when it is; no
\* bucket is keyed by an expected token and every value ends with the key of
\* its bucket
C18_BucketedByTrailingToken ==
  (caller = "audit_street" /\ pc = "returned") =>
    /\ \A t \in AuditedTags :
         IF TrailingToken(t.v) \in Range(auditor.expected)
         THEN \A p \in street_types : p[2] # t.v
         ELSE InBucket(TrailingToken(t.v), t.v)
    /\ \A p \in street_types :
         /\ p[1] \notin Range(auditor.expected)
         /\ HasAt(p[2], Len(p[2]) - Len(p[1]) + 1, p[1])

\* steps 1 to 5 of the sequence: substitution, title case and ordinal
\* stripping, digit-letter uppercase, letter/number swap, hyphen/space removal
FirstFiveSteps(value, table) ==
  Only({ remove_hypen_space_and_switch(n4) :
    n4 \in { switch_digit_position(n3) :
    n3 \in { street_letter_to_uppercase_and_removegap(n2) :
    n2 \in { remove_brackets(capwords(n1)) :
    n1 \in { update_street_name(value, table) } } } } })

\* then the street word is prepended, then a suffix Street moved
PrefixThenSuffix(value, table) ==
  Only({ put_number_after_street(n6) :
    n6 \in { add_street_prefix(n5) : n5 \in { FirstFiveSteps(value, table) } } })

\* then a suffix Street is moved, then the street word prepended
SuffixThenPrefix(value, table) ==
  Only({ add_street_prefix(n6) :
    n6 \in { put_number_after_street(n5) : n5 \in { FirstFiveSteps(value, table) } } })

\* nulling, then segment extraction of a value that was not nulled
NullThenExtract(name, canonical) ==
  IF \E i \in DOMAIN canonical : Contains(name, canonical[i])
  THEN extract_street(name, canonical)
  ELSE NoneStr

RewriteDone == caller = "clean_street_name" /\ pc = "260"

Returned == caller = "clean_street_name" /\ pc = "return"

\* C21 as claimed: the value the rewrite steps of clean_street_name end with
\* is the one the sequence gives in which the street word is prepended to a
\* bare number (step 6) before a suffix Street is moved in front of its
\* number (step 7), and the returned value is its nulling and extraction
C21_PrefixBeforeSuffix ==
  /\ RewriteDone => result = PrefixThenSuffix(dirty_value, mapping)
  /\ Returned =>
       result = NullThenExtract(PrefixThenSuffix(dirty_value, mapping),
                                expected_values)

\* C21 amended: clean_street_name applies substitution, title case with
\* ordinal stripping, digit-letter uppercase, letter/number swap and
\* hyphen/space removal, then moves a suffix Street in front of its number,
\* and only after that prepends the street word to a bare number or
\* number+letter, each step on the output of the one before; the returned
\* value is the nulling and then the segment extraction of that value
C21_SuffixBeforePrefix ==
  /\ RewriteDone => result = SuffixThenPrefix(dirty_value, mapping)
  /\ Returned =>
       result = NullThenExtract(SuffixThenPrefix(dirty_value, mapping),
                                expected_values)

OneStreet7A == <<"1"," ","S","t","r","e","e","t"," ","7","A">>

\* the input on which the two orders part has been cleaned: moving first
\* gives 'Street 1 7A', to whose 7A the street word is then prepended
C21_Witness ==
  /\ Returned
  /\ dirty_value = OneStreet7A
  /\ expected_values = expected_street_name
  /\ result = <<"S","t","r","e","e","t"," ","1"," ","S","t","r","e","e","t"," ","7","A">>
  /\ PrefixThenSuffix(dirty_value, mapping) # result

\* a canonical street-type word occurs somewhere in the name
HasStreetWord(name, canonical) ==
  \E w \in Range(canonical) : \E i \in 1..Len(name) : HasAt(name, i, w)

\* C22: the nulling step of clean_street_name gives 'None' exactly when the
\* value the rewrite steps produced holds none of the canonical street-type
\* words; so what clean_street_name returns is 'None' or holds a canonical
\* word, and with an empty canonical list every value is nulled
C22_NulledIffNoStreetWord ==
  [][ caller = "clean_street_name" =>
        /\ pc = "260" =>
              /\ result' = NoneStr <=> ~HasStreetWord(result, expected_values)
              /\ result' # NoneStr => result' = result
              /\ expected_values = <<>> => result' = NoneStr
        /\ pc' = "return" =>
              result' = NoneStr \/ HasStreetWord(result', expected_values) ]_vars

\* a name that holds a street word was nulled by an object built with an
\* empty list, and the call has returned 'None'
C22_Witness ==
  /\ Returned
  /\ expected_values = <<>>
  /\ HasStreetWord(dirty_value, expected_street_name)
  /\ result = NoneStr

\* the first segment of the split of name on char that holds a canonical
\* word, and the unsplit name when no segment does
FirstSegment(name, char, canonical) ==
  LET segments   == split(name, char)
      qualifying == { j \in DOMAIN segments :
                        HasStreetWord(segments[j], canonical) }
  IN  IF qualifying = {} THEN name ELSE segments[Min(qualifying)]

\* C23: extract_street of a value that was not nulled returns, for a value
\* that holds a comma (whether or not it holds a hyphen as well), the first
\* comma segment with a canonical street-type word, for a value that holds a
\* hyphen and no comma the first such hyphen segment, and the unsplit value
\* when no segment qualifies
C23_FirstQualifyingSegment ==
  [][ (caller = "clean_street_name" /\ pc = "261" /\ result # NoneStr) =>
        /\ Contains(result, <<",">>) =>
              result' = FirstSegment(result, ",", expected_values)
        /\ (Contains(result, <<"-">>) /\ ~Contains(result, <<",">>)) =>
              result' = FirstSegment(result, "-", expected_values) ]_vars

\* the literals clean_city_name treats as junk
KnownJunk ==
  { <<"t","o","w","n">>, <<"M","E","-","1","2">>, <<"A","E">>,
    <<"S","a","n"," ","D","i","e","g","o",","," ","C","A">> }

StartsWithLatinLetter(s) == s # <<>> /\ IsAlpha(s[1])

\* C24: clean_city_name of an input with no canonical match that is no
\* mapping key returns 'None' when the input is a known-junk literal or does
\* not start with a Latin letter, and the title-cased input in every other
\* case, a single letter included
C24_FallbackBranches ==
  (CityCalled /\ CitiesWithin = {} /\ dirty_value \notin Keys(mapping)) =>
    IF dirty_value \in KnownJunk \/ ~StartsWithLatinLetter(dirty_value)
    THEN result = NoneStr
    ELSE result = capwords(dirty_value)

ShapedWith == caller = "shape_element" /\ el # NoBundle

\* what the cleaner designated for the key k makes of the value v
CleanerResult(k, v) ==
  CASE k = <<"a","d","d","r",":","s","t","r","e","e","t">> ->
         clean_street_name(v, Permute(mapping_street_name, iter_order),
                           expected_street_name)
    [] k = <<"b","u","i","l","d","i","n","g">> -> clean_value(v, mapping_building)
    [] k = <<"s","u","r","f","a","c","e">> -> clean_value(v, mapping_surface)
    [] k = <<"o","n","e","w","a","y">> -> NoneStr
    [] k = <<"a","d","d","r",":","c","i","t","y">> ->
         clean_city_name(v, mapping_city, expected_cities)
    [] OTHER -> v

\* C25: called with the default patterns, shape_element emits one tag row per
\* sub-tag that is not excluded, in source order; the row's value is the
\* result of the designated cleaner when the raw key is exactly addr:street,
\* building, surface, oneway or addr:city, and the raw value for any other key
C25_OneRowPerKeptTag ==
  (ShapedWith /\ DefaultArgs) =>
    /\ Len(TagRows) = Len(KeptTags)
    /\ \A i \in DOMAIN KeptTags :
         /\ RawKeyOf(TagRows[i]) = KeptTags[i].k
         /\ TagRows[i].value = CleanerResult(KeptTags[i].k, KeptTags[i].v)

\* a building tag and a Building tag with the same value were shaped: the
\* first value is cleaned, the second is the raw one
C25_Witness ==
  /\ ShapedWith
  /\ DefaultArgs
  /\ Len(element.tags) = 2
  /\ element.tags[1] = [k |-> building, v |-> <<"o","f","f","i","c","e">>]
  /\ element.tags[2].k = <<"B","u","i","l","d","i","n","g">>
  /\ Len(TagRows) = 2
  /\ TagRows[1].value = <<"c","o","m","m","e","r","c","i","a","l">>
  /\ TagRows[2].value = <<"o","f","f","i","c","e">>

\* the sub-tags of the element that the patterns of this call do not match
PassedTags ==
  SelectSeq(element.tags,
            LAMBDA t : ~(\E i \in 1..Len(t.k) : t.k[i] \in problem_chars)
                       /\ ~search_arabic(arabic_chars, t.k))

\* the element of the other kind with the same id and the same sub-tags
Twin ==
  IF element.tag = "node"
  THEN [tag |-> "way", attrib |-> WayAttrib(element.attrib.id),
        tags |-> element.tags, nds |-> <<>>]
  ELSE [tag |-> "node", attrib |-> NodeAttrib(element.attrib.id),
        tags |-> element.tags, nds |-> <<>>]

\* the tag rows shape_element gives for the twin, called with the same
\* arguments
TwinRows ==
  LET twin == shape_element(Twin, problem_chars, arabic_chars,
                            Permute(mapping_street_name, iter_order))
  IN  IF element.tag = "node" THEN twin.way_tags ELSE twin.node_tags

\* C26: for the same sub-tags and the same arguments, also exclusion
\* patterns of the caller's, a node and a way give the same tag rows, and
\* the patterns of the call decide in both which sub-tags are skipped
C26_NodeAndWayAlike ==
  ShapedWith =>
    /\ TagRows = TwinRows
    /\ Len(TagRows) = Len(PassedTags)
    /\ \A i \in DOMAIN PassedTags : RawKeyOf(TagRows[i]) = PassedTags[i].k

\* the ids of the rows of a file, in the order they were written
RowIds(rows) == [i \in DOMAIN rows |-> rows[i].id]

\* the ids of the elements of one kind, in the order of the OSM file
StreamIds(kind) ==
  LET records == SelectSeq(osm_file, LAMBDA e : e.tag = kind)
  IN  [i \in DOMAIN records |-> records[i].attrib.id]

IsPrefix(s, u) == Len(s) <= Len(u) /\ s = SubSeq(u, 1, Len(s))

\* C27: at every point of process_map, between the writes of one record as
\* well, every tag row and member row in the files carries the id of a
\* primary row that is already in the node file or the way file, and the
\* primary rows are in the order of the records in the stream
C27_PrimaryRowFirst ==
  (caller = "ConvertToCSV" /\ files.opened) =>
    /\ \A row \in Range(files.nodes_tags.rows) :
         \E primary \in Range(files.nodes.rows) : primary.id = row.id
    /\ \A row \in Range(files.ways_nodes.rows) \cup Range(files.ways_tags.rows) :
         \E primary \in Range(files.ways.rows) : primary.id = row.id
    /\ IsPrefix(RowIds(files.nodes.rows), StreamIds("node"))
    /\ IsPrefix(RowIds(files.ways.rows), StreamIds("way"))
    /\ pc \in {"node_tags", "way_nodes", "way_tags"} =>
         \E primary \in Range(files.nodes.rows) \cup Range(files.ways.rows) :
           primary.id = element.attrib.id

\* process_map is in the middle of the second record, a way: its primary
\* row is written, its member and tag rows are not, and the rows of the
\* node before it are all in the files
C27_Witness ==
  /\ caller = "ConvertToCSV"
  /\ pc = "way_nodes"
  /\ cursor = 2
  /\ osm_file[1].tag = "node"
  /\ Len(osm_file[1].tags) = 2
  /\ Len(el.way_nodes) = 2
  /\ RowIds(files.nodes.rows) = <<osm_file[1].attrib.id>>
  /\ Len(files.nodes_tags.rows) = 2
  /\ RowIds(files.ways.rows) = <<osm_file[2].attrib.id>>
  /\ files.ways_nodes.rows = <<>>
  /\ files.ways_tags.rows = <<>>

====
